---------------------------- MODULE Spec2Model ----------------------------
(***************************************************************************)
(* Model of the MadData26 scripts:                                         *)
(*   - the requirement-grouping routine of L&S_Major_Requirements.py       *)
(*     (flush_group, row_to_course, extract_courses_from_table);           *)
(*   - the advising post-processing of ai/runModel.py                      *)
(*     (_clean_json_like_text, extract_json, the _fallback_* rules,        *)
(*     _enforce_schema, generate_json).                                    *)
(* Text is a sequence of tokens: one token per punctuation character or    *)
(* whitespace character, and one token per run of letters or digits.       *)
(***************************************************************************)
EXTENDS Integers, Sequences, FiniteSets, TLC

VARIABLES
    \* ---- L&S_Major_Requirements.py
    output_rows,        \* global list of [gid, major, course]
    global_group_id,    \* global counter, next group ID to hand out
    rows,               \* the <tr> rows of the table being extracted
    inside_category,    \* third argument of extract_courses_from_table
    idx,                \* position of the loop over rows (1-based)
    bucket,             \* local bucket / bundle of the running loop
    tpc,                \* "idle" | "header" | "category" | "flat"
    start_idx,          \* Len(output_rows) when the current table was entered
    first_gid,          \* global_group_id when the current table was entered
    rows_read,          \* rows consumed by all tables so far (bounds the run)
    \* ---- ai/runModel.py
    payload,            \* the advising payload handed to generate_json / _enforce_schema
    raw_text,           \* the decoded model output
    shape,              \* how raw_text was put together: [pre, wrap, body, suf]
    parsed,             \* extract_json(raw_text)
    model_data,         \* the data dict handed to _enforce_schema
    result,             \* what the call returned (or the exception it raised)
    apc,                \* position in generate_json / _enforce_schema
    \* ---- ai/runModel.py, _load_model_once
    _MODEL,             \* module global: 0 for None, else the identity of the object
    _TOKENIZER,         \* module global: 0 for None, else the identity of the object
    _MODEL_LOCK,        \* 0 when free, else the caller holding it
    interop_set,        \* torch's inter-op thread count has been fixed
    lpc,                \* per caller: position in _load_model_once
    seen,               \* per caller: values read on the way to a return
    path,               \* per caller: how its last call ended
    calls,              \* per caller: calls finished
    returned,           \* pairs <<tokenizer, model>> returned so far
    loads,              \* from_pretrained calls started: [tok, model, unlocked]
    \* ---- L&S_Major_Requirements.py, the scrape loop
    seen_programs,      \* global set of program keys
    title,              \* title of the program of the current iteration
    prog,               \* iterations of the program loop finished
    ppc,                \* "links" | "tab" | "header" | "tables" | "aborted"
    major_start,        \* start_idx of line 188: Len(output_rows) before the tables
    csv_written,        \* titles whose CSV file has been written
    outcome,            \* how the last finished iteration ended, and what it started from
    \* ---- ai/app.py, ask_llama
    request,            \* the request being handled: its body
    hpc,                \* "idle" | "received" | "prompted" | "called" | "responded" | "propagated"
    full_prompt,        \* local of ask_llama
    model_response,     \* local of ask_llama
    call_raised,        \* the exception the model call raised, or NoException
    response,           \* what the handler returned, or the exception that left it
    handled,            \* requests finished
    \* ---- ai/runModel.py, _main
    argv,               \* sys.argv
    files,              \* what the file system holds at the payload path
    stdout_utf8,        \* stdout can encode every character
    generation,         \* what generate_json does with the payload of this run
    mpc,                \* position in _main
    model_loaded,       \* generate_json, and with it _load_model_once, was entered
    printed,            \* what went to stdout and stderr
    exit_code,          \* value _main returned, or NoExit
    escaped             \* the exception that left _main, or NoException

tvars == <<output_rows, global_group_id, rows, inside_category, idx, bucket,
           tpc, start_idx, first_gid, rows_read>>
avars == <<payload, raw_text, shape, parsed, model_data, result, apc>>
lvars == <<_MODEL, _TOKENIZER, _MODEL_LOCK, interop_set, lpc, seen, path, calls,
           returned, loads>>
pvars == <<seen_programs, title, prog, ppc, major_start, csv_written, outcome>>
hvars == <<request, hpc, full_prompt, model_response, call_raised, response, handled>>
mvars == <<argv, files, stdout_utf8, generation, mpc, model_loaded, printed, exit_code,
           escaped>>
vars == <<tvars, avars, lvars, pvars, hvars, mvars>>

(***************************************************************************)
(* Bounds.                                                                 *)
(***************************************************************************)
MaxRows == 4        \* rows scraped in one run, over all tables
MaxCand == 4        \* candidate_programs of a payload
MaxProse == 2       \* tokens of prose around the JSON of a model output
NumCallers == 2     \* threads calling _load_model_once
MaxCalls == 2       \* calls each thread makes
MaxPrograms == 3    \* program links of the school page
ScrapeRows == 2     \* rows of all tables of one scrape run
MaxRequests == 3    \* requests the server handles

(***************************************************************************)
(* Small helpers on sequences.                                             *)
(***************************************************************************)
RECURSIVE SeqsUpTo(_, _)
SeqsUpTo(S, n) ==
    IF n = 0 THEN {<<>>}
    ELSE LET shorter == SeqsUpTo(S, n - 1)
         IN  shorter \cup {Append(s, x) : s \in {t \in shorter : Len(t) = n - 1}, x \in S}

Range(s) == {s[i] : i \in DOMAIN s}

(***************************************************************************)
(* Rows of a course-list table.  A row carries its class attribute, the    *)
(* text row_to_course derives from its links (or the row itself), and the  *)
(* text of its td.hourscol cells.                                          *)
(***************************************************************************)
MAJOR == "Mathematics, BA"

\* texts with a FILTER_KEYWORDS hit ("credit", "course", "from", "complete", ":")
KeywordTexts == {"Complete two courses from:"}
\* texts on which COURSE_ID_REGEX finds a match
CourseIdTexts == {"MATH 221", "STAT 340"}
\* every text a row can show: "" (no text), a filler heading, a keyword line, a course
RowTexts == {"", "Electives"} \cup KeywordTexts \cup CourseIdTexts

FILTER_KEYWORDS_hit(text) == text \in KeywordTexts
COURSE_ID_REGEX_search(text) == text \in CourseIdTexts

TableRows ==
    {[cls |-> "areaheader", text |-> "Electives", credit_text |-> ""],
     [cls |-> "areasubheader", text |-> "STAT 340", credit_text |-> ""],
     [cls |-> "even", text |-> "MATH 221", credit_text |-> ""],
     [cls |-> "even", text |-> "MATH 221", credit_text |-> "3"],
     [cls |-> "odd", text |-> "STAT 340", credit_text |-> ""],
     [cls |-> "odd", text |-> "", credit_text |-> ""],
     [cls |-> "even", text |-> "Complete two courses from:", credit_text |-> "6"],
     [cls |-> "odd", text |-> "Electives", credit_text |-> ""]}

\* "areaheader" in cls or "areasubheader" in cls, over the class values of TableRows
_is_sep(tr) == tr.cls \in {"areaheader", "areasubheader"}

\* row_to_course: <<text, has_credit>>, text "" for a row that is not a course
row_to_course(row) ==
    LET has_credit == row.credit_text # ""
        text == row.text
    IN  IF text = "" \/ FILTER_KEYWORDS_hit(text) THEN <<"", has_credit>>
        ELSE IF ~COURSE_ID_REGEX_search(text) THEN <<"", has_credit>>
        ELSE <<text, has_credit>>

\* variant of flush_group: the counter advances even when nothing is appended
flush_group_AlwaysAdvance(out, gid, courses, major) ==
    LET cleaned == SelectSeq(courses, LAMBDA c : ~FILTER_KEYWORDS_hit(c))
    IN  [out |-> out \o [i \in 1..Len(cleaned) |->
                            [gid |-> gid, major |-> major, course |-> cleaned[i]]],
         gid |-> gid + 1]

\* flush_group as a function of (output_rows, global_group_id): the new pair
flush_group(out, gid, courses, major) ==
    LET cleaned == SelectSeq(courses, LAMBDA c : ~FILTER_KEYWORDS_hit(c))
    IN  IF cleaned = <<>> THEN [out |-> out, gid |-> gid]
        ELSE [out |-> out \o [i \in 1..Len(cleaned) |->
                                [gid |-> gid, major |-> major, course |-> cleaned[i]]],
              gid |-> gid + 1]

(***************************************************************************)
(* extract_courses_from_table, one action per loop iteration.              *)
(***************************************************************************)
TInit ==
    /\ output_rows = <<>>
    /\ global_group_id = 1
    /\ rows = <<>>
    /\ inside_category = FALSE
    /\ idx = 1
    /\ bucket = <<>>
    /\ tpc = "idle"
    /\ start_idx = 0
    /\ first_gid = 1
    /\ rows_read = 0

\* entry: rows = table.find_elements("tr"); pick the mode
EnterTable ==
    /\ tpc = "idle"
    /\ \E n \in 0..(MaxRows - rows_read) :
       \E rs \in [1..n -> TableRows], ic \in BOOLEAN :
          /\ rows' = rs
          /\ inside_category' = ic
          /\ rows_read' = rows_read + n
          /\ tpc' = IF n = 0 THEN "idle"
                    ELSE IF \E i \in 1..n : _is_sep(rs[i]) THEN "header"
                    ELSE IF ic THEN "category"
                    ELSE "flat"
    /\ idx' = 1
    /\ bucket' = <<>>
    /\ start_idx' = Len(output_rows)
    /\ first_gid' = global_group_id
    /\ UNCHANGED <<output_rows, global_group_id>>

\* variant of HeaderRow: a filler row closes the bucket, as in category mode
HeaderRow_FlushOnFiller ==
    /\ tpc = "header" /\ idx <= Len(rows)
    /\ LET r == rows[idx]
           txt == row_to_course(r)[1]
           f == flush_group(output_rows, global_group_id, bucket, MAJOR)
       IN  IF _is_sep(r) \/ txt = ""
           THEN /\ output_rows' = f.out
                /\ global_group_id' = f.gid
                /\ bucket' = <<>>
           ELSE /\ bucket' = Append(bucket, txt)
                /\ UNCHANGED <<output_rows, global_group_id>>
    /\ idx' = idx + 1
    /\ UNCHANGED <<rows, inside_category, tpc, start_idx, first_gid, rows_read>>

\* 1: header / sub-header tables, one row
HeaderRow ==
    /\ tpc = "header" /\ idx <= Len(rows)
    /\ LET r == rows[idx]
           txt == row_to_course(r)[1]
           f == flush_group(output_rows, global_group_id, bucket, MAJOR)
       IN  IF _is_sep(r)
           THEN /\ output_rows' = f.out
                /\ global_group_id' = f.gid
                /\ bucket' = <<>>
           ELSE /\ bucket' = IF txt # "" THEN Append(bucket, txt) ELSE bucket
                /\ UNCHANGED <<output_rows, global_group_id>>
    /\ idx' = idx + 1
    /\ UNCHANGED <<rows, inside_category, tpc, start_idx, first_gid, rows_read>>

\* variant of CategoryRow: a row without course text is skipped, not a group end
CategoryRow_NoFlushOnFiller ==
    /\ tpc = "category" /\ idx <= Len(rows)
    /\ LET txt == row_to_course(rows[idx])[1]
       IN  bucket' = IF txt # "" THEN Append(bucket, txt) ELSE bucket
    /\ idx' = idx + 1
    /\ UNCHANGED <<output_rows, global_group_id, rows, inside_category, tpc,
                   start_idx, first_gid, rows_read>>

\* 2: table inside an accordion category, one row
CategoryRow ==
    /\ tpc = "category" /\ idx <= Len(rows)
    /\ LET txt == row_to_course(rows[idx])[1]
           f == flush_group(output_rows, global_group_id, bucket, MAJOR)
       IN  IF txt # ""
           THEN /\ bucket' = Append(bucket, txt)
                /\ UNCHANGED <<output_rows, global_group_id>>
           ELSE /\ output_rows' = f.out
                /\ global_group_id' = f.gid
                /\ bucket' = <<>>
    /\ idx' = idx + 1
    /\ UNCHANGED <<rows, inside_category, tpc, start_idx, first_gid, rows_read>>

\* variant of FlatRow: a credit-bearing course joins the bundle
FlatRow_IgnoreCredit ==
    /\ tpc = "flat" /\ idx <= Len(rows)
    /\ LET txt == row_to_course(rows[idx])[1]
           f == flush_group(output_rows, global_group_id, bucket, MAJOR)
       IN  IF txt = ""
           THEN /\ output_rows' = f.out
                /\ global_group_id' = f.gid
                /\ bucket' = <<>>
           ELSE /\ bucket' = Append(bucket, txt)
                /\ UNCHANGED <<output_rows, global_group_id>>
    /\ idx' = idx + 1
    /\ UNCHANGED <<rows, inside_category, tpc, start_idx, first_gid, rows_read>>

\* 3: flat table, one row
FlatRow ==
    /\ tpc = "flat" /\ idx <= Len(rows)
    /\ LET rc == row_to_course(rows[idx])
           txt == rc[1]
           credit == rc[2]
           f == flush_group(output_rows, global_group_id, bucket, MAJOR)
       IN  IF txt = ""
           THEN /\ output_rows' = f.out
                /\ global_group_id' = f.gid
                /\ bucket' = <<>>
           ELSE IF credit
           THEN /\ output_rows' = Append(f.out, [gid |-> f.gid, major |-> MAJOR, course |-> txt])
                /\ global_group_id' = f.gid + 1
                /\ bucket' = <<>>
           ELSE /\ bucket' = Append(bucket, txt)
                /\ UNCHANGED <<output_rows, global_group_id>>
    /\ idx' = idx + 1
    /\ UNCHANGED <<rows, inside_category, tpc, start_idx, first_gid, rows_read>>

\* the flush after the loop, in each of the three modes, and the return
LeaveTable ==
    /\ tpc \in {"header", "category", "flat"} /\ idx > Len(rows)
    /\ LET f == flush_group(output_rows, global_group_id, bucket, MAJOR)
       IN  /\ output_rows' = f.out
           /\ global_group_id' = f.gid
    /\ bucket' = <<>>
    /\ tpc' = "idle"
    /\ UNCHANGED <<rows, inside_category, idx, start_idx, first_gid, rows_read>>

TNext ==
    \/ EnterTable /\ UNCHANGED <<avars, lvars, pvars, hvars, mvars>>
    \/ HeaderRow /\ UNCHANGED <<avars, lvars, pvars, hvars, mvars>>
    \/ CategoryRow /\ UNCHANGED <<avars, lvars, pvars, hvars, mvars>>
    \/ FlatRow /\ UNCHANGED <<avars, lvars, pvars, hvars, mvars>>
    \/ LeaveTable /\ UNCHANGED <<avars, lvars, pvars, hvars, mvars>>



(***************************************************************************)
(* The scrape loop over the program links of the school page.  What the    *)
(* browser answers (the page loads or not, the tab opens or not, a header  *)
(* is found or not, which tables follow) is chosen freely.                 *)
(***************************************************************************)
\* program links: the title, and the key lines 134-136 derive from it
Programs ==
    {[title |-> "Mathematics, BA", key |-> "mathematics"],
     [title |-> "Mathematics, BS", key |-> "mathematics"],
     [title |-> "Statistics, BS", key |-> "statistics"],
     [title |-> "Data Science Certificate", key |-> "data science certificate"]}

\* "certificate" in title.lower()
IsCertificate(p) == p.title = "Data Science Certificate"

NoOutcome == [title |-> "", how |-> "none", rows_before |-> <<>>, gid_before |-> 1]

\* the iteration for program p ends in the way given
Finished(p, how) ==
    /\ outcome' = [title |-> p, how |-> how,
                   rows_before |-> outcome.rows_before, gid_before |-> outcome.gid_before]
    /\ prog' = prog + 1
    /\ ppc' = "links"

PIdle ==
    /\ seen_programs = {}
    /\ title = ""
    /\ prog = 0
    /\ ppc = "idle"
    /\ major_start = 0
    /\ csv_written = {}
    /\ outcome = NoOutcome

\* after line 128: the links are collected, no program visited yet
PInit ==
    /\ seen_programs = {}
    /\ title = ""
    /\ prog = 0
    /\ ppc = "links"
    /\ major_start = 0
    /\ csv_written = {}
    /\ outcome = NoOutcome

\* lines 130-132: a certificate is passed over
SkipCertificate ==
    /\ ppc = "links" /\ prog < MaxPrograms
    /\ \E p \in Programs :
          /\ IsCertificate(p)
          /\ title' = p.title
          /\ outcome' = [title |-> p.title, how |-> "certificate",
                         rows_before |-> output_rows, gid_before |-> global_group_id]
    /\ prog' = prog + 1
    /\ UNCHANGED <<seen_programs, ppc, major_start, csv_written>>

\* lines 134-138: a program whose key was seen is passed over
SkipSeen ==
    /\ ppc = "links" /\ prog < MaxPrograms
    /\ \E p \in Programs :
          /\ ~IsCertificate(p) /\ p.key \in seen_programs
          /\ title' = p.title
          /\ outcome' = [title |-> p.title, how |-> "seen",
                         rows_before |-> output_rows, gid_before |-> global_group_id]
    /\ prog' = prog + 1
    /\ UNCHANGED <<seen_programs, ppc, major_start, csv_written>>

\* lines 139-142: the key is recorded and the page requested; driver.get is
\* outside every try block, so its exception ends the script
OpenProgram ==
    /\ ppc = "links" /\ prog < MaxPrograms
    /\ \E p \in Programs, loaded \in BOOLEAN :
          /\ ~IsCertificate(p) /\ p.key \notin seen_programs
          /\ title' = p.title
          /\ seen_programs' = seen_programs \cup {p.key}
          /\ outcome' = [title |-> p.title, how |-> "running",
                         rows_before |-> output_rows, gid_before |-> global_group_id]
          /\ ppc' = IF loaded THEN "tab" ELSE "aborted"
    /\ UNCHANGED <<prog, major_start, csv_written>>

\* variant of OpenTab: no try block around the two waits
OpenTab_NoTry ==
    /\ ppc = "tab"
    /\ \E opened \in BOOLEAN :
          IF opened
          THEN ppc' = "header" /\ UNCHANGED <<prog, outcome>>
          ELSE /\ outcome' = [outcome EXCEPT !.how = "tab_failed"]
               /\ ppc' = "aborted"
               /\ UNCHANGED prog
    /\ UNCHANGED <<seen_programs, title, major_start, csv_written>>

\* lines 144-148: click the requirements tab and wait for its container;
\* on any exception print and continue
OpenTab ==
    /\ ppc = "tab"
    /\ \E opened \in BOOLEAN :
          IF opened
          THEN ppc' = "header" /\ UNCHANGED <<prog, outcome>>
          ELSE Finished(title, "tab_failed")
    /\ UNCHANGED <<seen_programs, title, major_start, csv_written>>

\* lines 178-188: try the XPaths in turn; without a header print and continue
FindHeader ==
    /\ ppc = "header"
    /\ \E found \in BOOLEAN :
          IF found
          THEN /\ major_start' = Len(output_rows)
               /\ ppc' = "tables"
               /\ UNCHANGED <<prog, outcome>>
          ELSE Finished(title, "no_header") /\ UNCHANGED major_start
    /\ UNCHANGED <<seen_programs, title, csv_written>>

\* lines 189-204: the tables after the header, one extract_courses_from_table each
ScrapeTables ==
    /\ ppc = "tables"
    /\ TNext
    /\ rows_read' <= ScrapeRows

\* lines 206-215: the rows of this major go to its CSV file, if there are any
WriteCsv ==
    /\ ppc = "tables" /\ tpc = "idle"
    /\ LET major_rows == SubSeq(output_rows, major_start + 1, Len(output_rows))
       IN  csv_written' = IF major_rows # <<>> THEN csv_written \cup {title}
                          ELSE csv_written
    /\ Finished(title, "processed")
    /\ UNCHANGED <<seen_programs, title, major_start>>

PNext ==
    \/ SkipCertificate /\ UNCHANGED <<tvars, avars, lvars, hvars, mvars>>
    \/ SkipSeen /\ UNCHANGED <<tvars, avars, lvars, hvars, mvars>>
    \/ OpenProgram /\ UNCHANGED <<tvars, avars, lvars, hvars, mvars>>
    \/ OpenTab /\ UNCHANGED <<tvars, avars, lvars, hvars, mvars>>
    \/ FindHeader /\ UNCHANGED <<tvars, avars, lvars, hvars, mvars>>
    \/ ScrapeTables
    \/ WriteCsv /\ UNCHANGED <<tvars, avars, lvars, hvars, mvars>>


(***************************************************************************)
(* ai/runModel.py.  JSON values as json.loads builds them:                 *)
(*   None, bool, int, str (a token sequence), list, dict (a function from  *)
(*   key strings to values).                                               *)
(***************************************************************************)
JNull == [t |-> "null"]
JBool(b) == [t |-> "bool", b |-> b]
JNum(n) == [t |-> "num", n |-> n]
JStr(s) == [t |-> "str", s |-> s]
JList(xs) == [t |-> "list", xs |-> xs]
JObj(m) == [t |-> "obj", m |-> m]

IsDict(v) == v.t = "obj"
IsList(v) == v.t = "list"

\* dict.get(key, default)
Get(d, key, default) == IF key \in DOMAIN d.m THEN d.m[key] ELSE default

\* d[key] = v on the function behind a dict (a repeated key keeps the last value)
Put(m, key, v) == [k \in (DOMAIN m) \cup {key} |-> IF k = key THEN v ELSE m[k]]

\* the numbers the texts and payloads of the model use, and their decimal tokens
Nums == {-5, 0, 1, 2, 3, 10, 40, 45, 65, 80, 90, 100, 150}
NumTokens == {ToString(n) : n \in Nums}
NumVal(tok) == CHOOSE n \in Nums : ToString(n) = tok

IsSpace(tok) == tok \in {" ", "\n"}

RECURSIVE SkipWs(_, _)
SkipWs(s, p) == IF p <= Len(s) /\ IsSpace(s[p]) THEN SkipWs(s, p + 1) ELSE p

RECURSIVE LastNonWs(_, _)
LastNonWs(s, p) == IF p >= 1 /\ IsSpace(s[p]) THEN LastNonWs(s, p - 1) ELSE p

\* str.strip()
Strip(s) == SubSeq(s, SkipWs(s, 1), LastNonWs(s, Len(s)))

(***************************************************************************)
(* json.loads: a recursive-descent parser over tokens.  A result is        *)
(* [ok, v, p]: success, the value, the position after it.                  *)
(***************************************************************************)
ParseFail == [ok |-> FALSE, v |-> JNull, p |-> 0]
ParseOk(v, p) == [ok |-> TRUE, v |-> v, p |-> p]

\* the body of a string literal, from the token after the opening quote
RECURSIVE ParseStr(_, _, _)
ParseStr(s, p, acc) ==
    IF p > Len(s) THEN ParseFail
    ELSE IF s[p] = "\"" THEN ParseOk(JStr(acc), p + 1)
    ELSE IF s[p] = "\n" THEN ParseFail              \* control character
    ELSE IF s[p] = "\\"
         THEN IF p + 1 <= Len(s) /\ s[p + 1] \in {"\"", "\\"}
              THEN ParseStr(s, p + 2, Append(acc, s[p + 1]))
              ELSE ParseFail                          \* invalid escape
    ELSE ParseStr(s, p + 1, Append(acc, s[p]))

RECURSIVE ParseValue(_, _)
RECURSIVE ParseMembers(_, _, _)
RECURSIVE ParseElements(_, _, _)

\* members of an object, from the first token of a key
ParseMembers(s, p, m) ==
    IF p > Len(s) \/ s[p] # "\"" THEN ParseFail
    ELSE LET k == ParseStr(s, p + 1, <<>>)
         IN  IF ~k.ok THEN ParseFail
             ELSE LET c == SkipWs(s, k.p)
                  IN  IF c > Len(s) \/ s[c] # ":" THEN ParseFail
                      ELSE LET v == ParseValue(s, SkipWs(s, c + 1))
                           IN  IF ~v.ok THEN ParseFail
                               ELSE LET e == SkipWs(s, v.p)
                                        m2 == Put(m, k.v.s, v.v)
                                    IN  IF e > Len(s) THEN ParseFail
                                        ELSE IF s[e] = "}" THEN ParseOk(JObj(m2), e + 1)
                                        ELSE IF s[e] = ","
                                             THEN ParseMembers(s, SkipWs(s, e + 1), m2)
                                        ELSE ParseFail

\* elements of an array, from the first token of an element
ParseElements(s, p, xs) ==
    LET v == ParseValue(s, p)
    IN  IF ~v.ok THEN ParseFail
        ELSE LET e == SkipWs(s, v.p)
                 xs2 == Append(xs, v.v)
             IN  IF e > Len(s) THEN ParseFail
                 ELSE IF s[e] = "]" THEN ParseOk(JList(xs2), e + 1)
                 ELSE IF s[e] = "," THEN ParseElements(s, SkipWs(s, e + 1), xs2)
                 ELSE ParseFail

ParseValue(s, p) ==
    IF p > Len(s) THEN ParseFail
    ELSE IF s[p] = "{"
         THEN LET q == SkipWs(s, p + 1)
              IN  IF q <= Len(s) /\ s[q] = "}" THEN ParseOk(JObj(<<>>), q + 1)
                  ELSE ParseMembers(s, q, <<>>)
    ELSE IF s[p] = "["
         THEN LET q == SkipWs(s, p + 1)
              IN  IF q <= Len(s) /\ s[q] = "]" THEN ParseOk(JList(<<>>), q + 1)
                  ELSE ParseElements(s, q, <<>>)
    ELSE IF s[p] = "\"" THEN ParseStr(s, p + 1, <<>>)
    ELSE IF s[p] \in NumTokens THEN ParseOk(JNum(NumVal(s[p])), p + 1)
    ELSE IF s[p] = "true" THEN ParseOk(JBool(TRUE), p + 1)
    ELSE IF s[p] = "false" THEN ParseOk(JBool(FALSE), p + 1)
    ELSE IF s[p] = "null" THEN ParseOk(JNull, p + 1)
    ELSE ParseFail

\* json.loads(text): one value, whitespace around it, nothing else
json_loads(s) ==
    LET v == ParseValue(s, SkipWs(s, 1))
    IN  IF v.ok /\ SkipWs(s, v.p) = Len(s) + 1 THEN v ELSE ParseFail

(***************************************************************************)
(* _clean_json_like_text                                                   *)
(***************************************************************************)
\* re.sub(r",\s*([}\]])", r"\1", s): leftmost matches, left to right
RECURSIVE CommaSub(_, _)
CommaSub(s, p) ==
    IF p > Len(s) THEN <<>>
    ELSE LET q == SkipWs(s, p + 1)
         IN  IF s[p] = "," /\ q <= Len(s) /\ s[q] \in {"}", "]"}
             THEN <<s[q]>> \o CommaSub(s, q + 1)
             ELSE <<s[p]>> \o CommaSub(s, p + 1)

\* the token FENCE stands for a run of three backticks
FENCE == "FENCE"
FenceAt(s) == {i \in DOMAIN s : s[i] = FENCE}
Min(S) == CHOOSE x \in S : \A y \in S : x <= y

\* re.search(FENCE (?:json)? \s* (.*?) \s* FENCE).group(1).strip(), or the text
\* itself when there is no match: the leftmost fence that has a later fence,
\* the optional json tag, and the content up to the next fence
Unfence(s) ==
    LET opens == {i \in FenceAt(s) : \E j \in FenceAt(s) : j > i}
    IN  IF opens = {} THEN s
        ELSE LET i == Min(opens)
                 j == Min({k \in FenceAt(s) : k > i})
                 a == IF i + 1 < j /\ s[i + 1] \in {"json", "JSON"} THEN i + 2 ELSE i + 1
             IN  Strip(SubSeq(s, a, j - 1))

_clean_json_like_text(text) == CommaSub(Unfence(Strip(text)), 1)

(***************************************************************************)
(* extract_json                                                            *)
(***************************************************************************)
\* the scanner's state before reading token i; start_idx 0 stands for None
ScanInit == [start_idx |-> 0, depth |-> 0, in_string |-> FALSE, escape |-> FALSE,
             candidates |-> <<>>]

ScanStep(cleaned, i, st) ==
    LET ch == cleaned[i]
    IN  IF st.in_string
        THEN IF st.escape THEN [st EXCEPT !.escape = FALSE]
             ELSE IF ch = "\\" THEN [st EXCEPT !.escape = TRUE]
             ELSE IF ch = "\"" THEN [st EXCEPT !.in_string = FALSE]
             ELSE st
        ELSE IF ch = "\"" THEN [st EXCEPT !.in_string = TRUE]
        ELSE IF ch = "{"
             THEN [st EXCEPT !.start_idx = IF st.depth = 0 THEN i ELSE @,
                             !.depth = @ + 1]
        ELSE IF ch = "}" /\ st.depth > 0
             THEN IF st.depth - 1 = 0 /\ st.start_idx # 0
                  THEN LET candidate == CommaSub(SubSeq(cleaned, st.start_idx, i), 1)
                           obj == json_loads(candidate)
                       IN  IF ~obj.ok THEN [st EXCEPT !.depth = 0, !.start_idx = 0]
                           ELSE IF IsDict(obj.v)
                                THEN [st EXCEPT !.depth = 0,
                                                !.candidates = Append(@, obj.v)]
                           ELSE [st EXCEPT !.depth = 0]
                  ELSE [st EXCEPT !.depth = @ - 1]
        ELSE st

RECURSIVE Scan(_, _, _)
Scan(cleaned, i, st) ==
    IF i > Len(cleaned) THEN st ELSE Scan(cleaned, i + 1, ScanStep(cleaned, i, st))

REQUIRED_KEYS == {<<"recommended_programs">>, <<"next_steps">>}

\* extract_json(text): a dict, or JNull for None
extract_json(text) ==
    LET cleaned == _clean_json_like_text(text)
        direct == json_loads(cleaned)
        first == IF direct.ok /\ IsDict(direct.v) THEN <<direct.v>> ELSE <<>>
        candidates == Scan(cleaned, 1, [ScanInit EXCEPT !.candidates = first]).candidates
        full == {k \in DOMAIN candidates : REQUIRED_KEYS \subseteq DOMAIN candidates[k].m}
    IN  IF candidates = <<>> THEN JNull
        ELSE IF full # {} THEN candidates[Min(full)]
        ELSE candidates[1]


(***************************************************************************)
(* Python conversions used by the fallback rules and _enforce_schema.      *)
(***************************************************************************)
\* str(v); "..." stands for the reprs of the elements of a non-empty container
PyStr(v) ==
    CASE v.t = "str" -> v.s
      [] v.t = "num" -> <<ToString(v.n)>>
      [] v.t = "null" -> <<"None">>
      [] v.t = "bool" -> IF v.b THEN <<"True">> ELSE <<"False">>
      [] v.t = "list" -> IF v.xs = <<>> THEN <<"[", "]">> ELSE <<"[", "...", "]">>
      [] v.t = "obj" -> IF DOMAIN v.m = {} THEN <<"{", "}">> ELSE <<"{", "...", "}">>

\* float(v): [ok, n]; ok FALSE stands for TypeError / ValueError
PyFloat(v) ==
    CASE v.t = "num" -> [ok |-> TRUE, n |-> v.n]
      [] v.t = "bool" -> [ok |-> TRUE, n |-> IF v.b THEN 1 ELSE 0]
      [] v.t = "str" -> LET w == Strip(v.s)
                        IN  IF Len(w) = 1 /\ w[1] \in NumTokens
                            THEN [ok |-> TRUE, n |-> NumVal(w[1])]
                            ELSE [ok |-> FALSE, n |-> 0]
      [] OTHER -> [ok |-> FALSE, n |-> 0]

\* bool(v)
Truthy(v) ==
    CASE v.t = "str" -> v.s # <<>>
      [] v.t = "num" -> v.n # 0
      [] v.t = "null" -> FALSE
      [] v.t = "bool" -> v.b
      [] v.t = "list" -> v.xs # <<>>
      [] v.t = "obj" -> DOMAIN v.m # {}

\* "for x in v" raises TypeError unless v is a list, a str or a dict
Iterable(v) == v.t \in {"list", "str", "obj"}
\* the items the loops act on: the characters of a str and the keys of a dict
\* are not dicts, and every loop over candidates or programs skips non-dicts
Items(v) == IF v.t = "list" THEN v.xs ELSE <<>>

\* float("nan"), and the NaN of a JSON text: a number that compares False with
\* every number
NaN == 1000001

\* a < b on floats
Less(a, b) == a # NaN /\ b # NaN /\ a < b

\* min(a, b) and max(a, b) of two floats: the first argument unless the second
\* one compares smaller (larger)
PyMin(a, b) == IF Less(b, a) THEN b ELSE a
PyMax(a, b) == IF Less(a, b) THEN b ELSE a

\* variant of Clamp: only the lower limit is applied
Clamp_LowerOnly(n) == PyMax(0, n)

\* max(0.0, min(100.0, n))
Clamp(n) == PyMax(0, PyMin(100, n))

K(word) == <<word>>

RECURSIVE Join(_, _)
Join(parts, sep) ==
    IF parts = <<>> THEN <<>>
    ELSE IF Len(parts) = 1 THEN parts[1]
    ELSE parts[1] \o sep \o Join(Tail(parts), sep)

Take(s, n) == SubSeq(s, 1, IF Len(s) < n THEN Len(s) ELSE n)

\* the first occurrence of every element, in order
RECURSIVE Dedup(_)
Dedup(s) ==
    IF s = <<>> THEN <<>>
    ELSE LET front == Dedup(SubSeq(s, 1, Len(s) - 1))
             x == s[Len(s)]
         IN  IF x \in Range(front) THEN front ELSE Append(front, x)

\* [f(x) for x in xs]
RECURSIVE MapStrip(_)
MapStrip(xs) ==
    IF xs = <<>> THEN <<>>
    ELSE LET w == Strip(PyStr(xs[1]))
         IN  (IF w # <<>> THEN <<w>> ELSE <<>>) \o MapStrip(Tail(xs))

\* the lower-cased letters of a token that contain a keyword of
\* _fallback_career_paths
LowerHas(tok, needle) ==
    CASE needle = "data" -> tok \in {"data", "Data"}
      [] needle = "machine" -> tok \in {"machine", "Machine"}
      [] needle = "ai" -> tok \in {"ai", "AI", "maintain"}
      [] needle = "software" -> tok \in {"software", "Software"}
      [] needle = "computer" -> tok \in {"computer", "Computer"}

\* needle in s.lower()
InLower(needle, s) == \E i \in DOMAIN s : LowerHas(s[i], needle)

(***************************************************************************)
(* _timeline_context: <<timeline_text, sem, delay>>                        *)
(***************************************************************************)
_timeline_context(candidate, advising_payload) ==
    LET sem_raw == Get(candidate, K("estimated_semesters_needed"),
                       Get(advising_payload, K("estimated_semesters_needed"), JNull))
        delay_raw == Get(candidate, K("estimated_graduation_delay"),
                         Get(advising_payload, K("estimated_graduation_delay"), JNum(0)))
        year == Get(candidate, K("current_year"),
                    Get(advising_payload, K("current_year"), JNull))
        expected_grad == Get(candidate, K("expected_graduation"),
                             Get(advising_payload, K("expected_graduation"), JNull))
        sem == IF sem_raw # JNull /\ PyFloat(sem_raw).ok THEN PyFloat(sem_raw).n ELSE 0
        delay == IF delay_raw # JNull /\ PyFloat(delay_raw).ok THEN PyFloat(delay_raw).n ELSE 0
        timeline_bits ==
            (IF sem > 0
             THEN << <<"estimated to finish in", " ", ToString(sem), " ", "semester(s)">> >>
             ELSE <<>>)
            \o (IF delay > 0
                THEN << <<"with an estimated graduation delay of", " ", ToString(delay),
                          " ", "semester(s)">> >>
                ELSE << <<"with no estimated graduation delay">> >>)
            \o (IF Truthy(expected_grad)
                THEN << <<"targeting", " ">> \o PyStr(expected_grad) >> ELSE <<>>)
            \o (IF Truthy(year)
                THEN << <<"from your current", " ">> \o PyStr(year) \o <<" ", "standing">> >>
                ELSE <<>>)
    IN  <<Join(timeline_bits, <<" ", "and", " ">>), sem, delay>>

(***************************************************************************)
(* _fallback_programs_from_payload                                         *)
(***************************************************************************)
CandidatePrograms(advising_payload) ==
    Items(Get(advising_payload, K("candidate_programs"), JList(<<>>)))

\* remaining_list of a candidate
RemainingList(candidate) ==
    LET remaining == Get(candidate, K("remaining_courses"), JList(<<>>))
    IN  IF IsList(remaining) THEN MapStrip(remaining.xs) ELSE <<>>

\* the item appended to fallback for one named candidate
FallbackItem(candidate, advising_payload) ==
    LET name == Strip(PyStr(Get(candidate, K("name"), JStr(<<>>))))
        feasibility_raw == Get(candidate, K("feasibility_score"), JNull)
        completion_raw == Get(candidate, K("completion_pct"), JNum(0))
        completion_pct == Clamp(IF PyFloat(completion_raw).ok
                                THEN PyFloat(completion_raw).n ELSE 0)
        score == Clamp(IF feasibility_raw # JNull /\ PyFloat(feasibility_raw).ok
                       THEN PyFloat(feasibility_raw).n ELSE completion_pct)
        remaining_list == RemainingList(candidate)
        remaining_count == Len(remaining_list)
        timeline_text == _timeline_context(candidate, advising_payload)[1]
        why == <<ToString(completion_pct), "% complete">>
               \o (IF remaining_list # <<>>
                   THEN <<" ", "with", " ", ToString(remaining_count), " ",
                          "course(s) remaining">> ELSE <<>>)
               \o (IF timeline_text # <<>> THEN <<" ", "and", " ">> \o timeline_text ELSE <<>>)
               \o (IF remaining_list # <<>>
                   THEN <<":", " ">> \o Join(Take(remaining_list, 4), <<",", " ">>) ELSE <<>>)
    IN  [name |-> name, feasibility_score_0_100 |-> score, why |-> why,
         _sort_feasibility |-> score, _sort_completion |-> completion_pct,
         _sort_remaining |-> remaining_count]

\* the sort key (feasibility, completion, -remaining) of a before that of b
KeyLess(a, b) ==
    \/ a._sort_feasibility < b._sort_feasibility
    \/ /\ a._sort_feasibility = b._sort_feasibility
       /\ \/ a._sort_completion < b._sort_completion
          \/ /\ a._sort_completion = b._sort_completion
             /\ (0 - a._sort_remaining) < (0 - b._sort_remaining)

\* list.sort(key=..., reverse=True): descending, equal keys keep their order
RECURSIVE SortDesc(_)
SortDesc(s) ==
    IF s = <<>> THEN <<>>
    ELSE LET front == SortDesc(SubSeq(s, 1, Len(s) - 1))
             x == s[Len(s)]
             n == Cardinality({i \in DOMAIN front : ~KeyLess(front[i], x)})
         IN  SubSeq(front, 1, n) \o <<x>> \o SubSeq(front, n + 1, Len(front))

RECURSIVE FallbackItems(_, _)
FallbackItems(cands, advising_payload) ==
    IF cands = <<>> THEN <<>>
    ELSE LET c == cands[1]
             rest == FallbackItems(Tail(cands), advising_payload)
         IN  IF ~IsDict(c) THEN rest
             ELSE IF Strip(PyStr(Get(c, K("name"), JStr(<<>>)))) = <<>> THEN rest
             ELSE <<FallbackItem(c, advising_payload)>> \o rest

CleanItem(item) ==
    [name |-> item.name, feasibility_score_0_100 |-> item.feasibility_score_0_100,
     why |-> item.why]

TOP_N == 3

_fallback_programs_from_payload(advising_payload) ==
    LET fallback == SortDesc(FallbackItems(CandidatePrograms(advising_payload),
                                           advising_payload))
        top == Take(fallback, TOP_N)
    IN  [i \in DOMAIN top |-> CleanItem(top[i])]


(***************************************************************************)
(* _fallback_next_steps, _fallback_career_paths, _fallback_pros,           *)
(* _fallback_cons.  programs is a list of [name, feasibility_score_0_100,  *)
(* why].                                                                   *)
(***************************************************************************)
\* candidate_by_name.get(name, {}): the last dict candidate with that stripped name
CandidateByName(advising_payload, name) ==
    LET cands == CandidatePrograms(advising_payload)
        hits == {i \in DOMAIN cands :
                    /\ IsDict(cands[i])
                    /\ Strip(PyStr(Get(cands[i], K("name"), JStr(<<>>)))) = name}
    IN  IF hits = {} THEN JObj(<<>>)
        ELSE cands[CHOOSE i \in hits : \A j \in hits : j <= i]

\* all_remaining: the stripped non-empty remaining courses of the dict candidates
RECURSIVE AllRemaining(_)
AllRemaining(cands) ==
    IF cands = <<>> THEN <<>>
    ELSE (IF IsDict(cands[1]) THEN RemainingList(cands[1]) ELSE <<>>)
         \o AllRemaining(Tail(cands))

\* the course names of the model, in str order
SortedCourses == << <<"CS 300">>, <<"MATH 221">>, <<"STAT 340">> >>
\* sorted(set(xs)), for xs over the course names of the model
SortedSet(xs) == SelectSeq(SortedCourses, LAMBDA c : c \in Range(xs))

MAX_STEPS == 6
MAX_SEQUENCING == 5

_fallback_next_steps(advising_payload, programs) ==
    LET top_program == programs[1]
        top_candidate == CandidateByName(advising_payload, top_program.name)
        tl == _timeline_context(top_candidate, advising_payload)
        step == <<"Prioritize", " ">> \o top_program.name
                \o <<" ", "this semester and map remaining requirements into your graduation plan">>
                \o (IF tl[1] # <<>> THEN <<" ", "(">> \o tl[1] \o <<")">> ELSE <<>>)
        first == IF programs = <<>> THEN <<>>
                 ELSE <<step \o <<".">> >>
                      \o (IF tl[2] > 0
                          THEN << <<"Plan a term-by-term schedule for the next", " ",
                                    ToString(tl[2]), " ", "semester(s) to stay on track.">> >>
                          ELSE <<>>)
                      \o (IF tl[3] > 0
                          THEN << <<"Meet with an L&S advisor this month to reduce projected graduation delay risks.">> >>
                          ELSE <<>>)
        unique_remaining == SortedSet(AllRemaining(CandidatePrograms(advising_payload)))
        steps == first
                 \o (IF unique_remaining # <<>>
                     THEN << <<"Meet with an L&S advisor to confirm sequencing for:", " ">>
                             \o Join(Take(unique_remaining, MAX_SEQUENCING), <<",", " ">>)
                             \o <<".">> >>
                     ELSE <<>>)
                 \o << <<"Use your next registration window to enroll in at least one remaining certificate/major-support course.">>,
                       <<"Update your resume and LinkedIn with project work aligned to your top recommended program.">> >>
    IN  Take(Dedup(steps), MAX_STEPS)

MAX_CAREERS == 5

\* [str(i).strip().lower() for i in interests if str(i).strip()], before lower()
Interests(advising_payload) ==
    MapStrip(Items(Get(advising_payload, K("interests"), JList(<<>>))))

_fallback_career_paths(advising_payload, programs) ==
    LET interests == Interests(advising_payload)
        AnyInterest(needle) == \E i \in DOMAIN interests : InLower(needle, interests[i])
        AnyProgram(needle) == \E i \in DOMAIN programs : InLower(needle, programs[i].name)
        mapped ==
            (IF AnyInterest("data") \/ AnyProgram("data")
             THEN << <<"Data Scientist">>, <<"Data Analyst">>,
                     <<"Business Intelligence Developer">> >> ELSE <<>>)
            \o (IF AnyInterest("machine") \/ AnyInterest("ai")
                THEN << <<"Machine Learning Engineer">>, <<"Applied AI Engineer">> >>
                ELSE <<>>)
            \o (IF AnyInterest("software") \/ AnyProgram("computer")
                THEN << <<"Software Engineer">>, <<"Backend Engineer">> >> ELSE <<>>)
        mapped2 == IF mapped = <<>>
                   THEN << <<"Software Engineer">>, <<"Data Analyst">>,
                           <<"Technical Consultant">> >>
                   ELSE mapped
    IN  Take(Dedup(mapped2), MAX_CAREERS)

MAX_PROS == 4

_fallback_pros(advising_payload, programs) ==
    LET top == IF programs # <<>> THEN programs[1].name ELSE <<"the recommended plan">>
        top_candidate == CandidateByName(advising_payload, top)
        tl == _timeline_context(top_candidate, advising_payload)
        pros == << top \o <<" ", "is aligned with your completed coursework and current trajectory.">>,
                   <<"Completing a targeted program can strengthen internship and entry-level job competitiveness.">> >>
                \o (IF tl[1] # <<>>
                    THEN << <<"Backend timeline estimates indicate this path is", " ">>
                            \o tl[1] \o <<".">> >>
                    ELSE <<>>)
                \o (IF tl[3] <= 0
                    THEN << <<"Current feasibility inputs suggest graduation timing can likely be preserved.">> >>
                    ELSE <<>>)
    IN  Take(pros, MAX_PROS)

RECURSIVE SumSeq(_)
SumSeq(s) == IF s = <<>> THEN 0 ELSE s[1] + SumSeq(Tail(s))
Max(S) == CHOOSE x \in S : \A y \in S : y <= x

MAX_CONS == 4

_fallback_cons(advising_payload, programs) ==
    LET cands == SelectSeq(CandidatePrograms(advising_payload), IsDict)
        WithList == {i \in DOMAIN cands :
                        IsList(Get(cands[i], K("remaining_courses"), JNull))}
        remaining_total ==
            SumSeq([i \in DOMAIN cands |->
                      IF i \in WithList
                      THEN Len(Get(cands[i], K("remaining_courses"), JNull).xs) ELSE 0])
        sems == {_timeline_context(cands[i], advising_payload)[2] : i \in DOMAIN cands}
        delays == {_timeline_context(cands[i], advising_payload)[3] : i \in DOMAIN cands}
        semesters == {x \in sems : x > 0}
        \* avg_remaining >= 3, without the division
        avg_at_least_3 == WithList # {} /\ remaining_total >= 3 * Cardinality(WithList)
        max_delay == IF delays # {} THEN Max(delays) ELSE 0
        max_sem == IF semesters # {} THEN Max(semesters) ELSE 0
        cons == << <<"Additional required courses may increase workload in upcoming terms.">>,
                   <<"Balancing depth in one area may reduce flexibility for unrelated electives.">> >>
                \o (IF max_sem >= 2
                    THEN << <<"Some options may require multi-semester follow-through (up to",
                              " ", ToString(max_sem), " ", "semester(s)).">> >>
                    ELSE <<>>)
                \o (IF max_delay > 0
                    THEN << <<"Backend estimates indicate potential graduation delay risk (up to",
                              " ", ToString(max_delay), " ", "semester(s)).">> >>
                    ELSE IF avg_at_least_3
                    THEN << <<"Several remaining requirements may require careful sequencing to graduate on time.">> >>
                    ELSE << <<"Even with high feasibility, completing requirements still needs consistent term-by-term planning.">> >>)
    IN  Take(cons, MAX_CONS)

(***************************************************************************)
(* _enforce_schema                                                         *)
(***************************************************************************)
TypeError == [error |-> "TypeError"]

\* variant of ensure_list_of_strings: the items are converted but neither
\* stripped nor filtered
RECURSIVE MapStr(_)
MapStr(xs) == IF xs = <<>> THEN <<>> ELSE <<PyStr(xs[1])>> \o MapStr(Tail(xs))
ensure_list_of_strings_NoStrip(value) ==
    IF ~IsList(value) THEN <<>> ELSE MapStr(value.xs)

ensure_list_of_strings(value) ==
    IF ~IsList(value) THEN <<>> ELSE MapStrip(value.xs)

\* the program built from one item of data["recommended_programs"], or <<>>
RECURSIVE ModelPrograms(_)
ModelPrograms(items) ==
    IF items = <<>> THEN <<>>
    ELSE LET item == items[1]
             rest == ModelPrograms(Tail(items))
         IN  IF ~IsDict(item) THEN rest
             ELSE LET name == Strip(PyStr(Get(item, K("name"), JStr(<<>>))))
                      why == Strip(PyStr(Get(item, K("why"), JStr(<<>>))))
                      score_raw == Get(item, K("feasibility_score_0_100"), JNum(0))
                      score == Clamp(IF PyFloat(score_raw).ok THEN PyFloat(score_raw).n ELSE 0)
                  IN  IF name # <<>>
                      THEN <<[name |-> name, feasibility_score_0_100 |-> score, why |-> why]>>
                           \o rest
                      ELSE rest

OrElse(primary, fallback) == IF primary # <<>> THEN primary ELSE fallback

_enforce_schema(data, advising_payload) ==
    LET recommended == Get(data, K("recommended_programs"), JList(<<>>))
        programs == OrElse(ModelPrograms(Items(recommended)),
                           _fallback_programs_from_payload(advising_payload))
    IN  IF ~Iterable(recommended) THEN TypeError
        ELSE [recommended_programs |-> programs,
              career_paths |-> OrElse(ensure_list_of_strings(Get(data, K("career_paths"), JNull)),
                                      _fallback_career_paths(advising_payload, programs)),
              pros |-> OrElse(ensure_list_of_strings(Get(data, K("pros"), JNull)),
                              _fallback_pros(advising_payload, programs)),
              cons |-> OrElse(ensure_list_of_strings(Get(data, K("cons"), JNull)),
                              _fallback_cons(advising_payload, programs)),
              next_steps |-> OrElse(ensure_list_of_strings(Get(data, K("next_steps"), JNull)),
                                    _fallback_next_steps(advising_payload, programs))]


(***************************************************************************)
(* Inputs.  Payloads as the backend builds them, model data as json.loads  *)
(* can return it.                                                          *)
(***************************************************************************)
\* a dict from <<key, value>> pairs
RECURSIVE DictOf(_)
DictOf(pairs) ==
    IF pairs = <<>> THEN <<>>
    ELSE Put(DictOf(SubSeq(pairs, 1, Len(pairs) - 1)), K(pairs[Len(pairs)][1]),
             pairs[Len(pairs)][2])
Dict(pairs) == JObj(DictOf(pairs))

DataScience == <<"Data", " ", "Science">>
ComputerSciences == <<"Computer", " ", "Sciences">>

CandidateItems ==
    [ ds |-> Dict(<< <<"name", JStr(DataScience)>>, <<"feasibility_score", JNum(80)>>,
                     <<"completion_pct", JNum(40)>>,
                     <<"remaining_courses",
                       JList(<<JStr(<<"STAT 340">>), JStr(<<" ", "CS 300", " ">>)>>)>>,
                     <<"estimated_semesters_needed", JNum(2)>>,
                     <<"estimated_graduation_delay", JNum(1)>> >>),
      cs |-> Dict(<< <<"name", JStr(ComputerSciences)>>, <<"completion_pct", JNum(90)>>,
                     <<"remaining_courses", JList(<<>>)>> >>),
      blank |-> Dict(<< <<"name", JStr(<<" ">>)>>, <<"feasibility_score", JNum(65)>> >>),
      text |-> JStr(DataScience),
      math |-> Dict(<< <<"name", JStr(<<"Math">>)>>, <<"feasibility_score", JStr(<<"high">>)>>,
                       <<"completion_pct", JNum(150)>>,
                       <<"remaining_courses", JList(<<JStr(<<"MATH 221">>), JStr(<<" ">>)>>)>>,
                       <<"estimated_graduation_delay", JNum(-5)>> >>),
      nan |-> Dict(<< <<"name", JStr(<<"Statistics">>)>>, <<"feasibility_score", JNum(NaN)>>,
                      <<"completion_pct", JNum(NaN)>> >>) ]

Candidates == {CandidateItems[k] : k \in DOMAIN CandidateItems}

PayloadExtras ==
    { <<>>,
      << <<"interests", JList(<<JStr(<<" ", "AI", " ">>), JStr(<<>>)>>)>>,
         <<"estimated_semesters_needed", JNum(3)>>,
         <<"current_year", JStr(<<"junior">>)>> >> }

\* candidate lists: up to MaxCand candidates, none of them twice
CandidateLists == {cs \in SeqsUpTo(Candidates, MaxCand) : Cardinality(Range(cs)) = Len(cs)}

\* the empty payload, and payloads with candidate_programs
Payloads ==
    { Dict(<<>>) }
    \cup { Dict(<< <<"candidate_programs", JList(cs)>> >> \o ex) :
              cs \in CandidateLists, ex \in PayloadExtras }

\* values of data["recommended_programs"]; <<>> stands for a missing key
ProgramItems ==
    [ good |-> Dict(<< <<"name", JStr(DataScience)>>, <<"feasibility_score_0_100", JNum(10)>>,
                       <<"why", JStr(<<" ", "Good fit">>)>> >>),
      nameless |-> Dict(<< <<"feasibility_score_0_100", JNum(45)>> >>),
      text |-> JStr(ComputerSciences),
      unscored |-> Dict(<< <<"name", JStr(<<"Statistics">>)>>,
                           <<"feasibility_score_0_100", JStr(<<"high">>)>> >>),
      high |-> Dict(<< <<"name", JStr(ComputerSciences)>>,
                       <<"feasibility_score_0_100", JNum(150)>>, <<"why", JNull>> >>),
      low |-> Dict(<< <<"name", JNum(3)>>, <<"feasibility_score_0_100", JNum(-5)>> >>),
      nan |-> Dict(<< <<"name", JStr(<<"Math">>)>>, <<"feasibility_score_0_100", JNum(NaN)>>,
                      <<"why", JStr(<<"Close">>)>> >>) ]

RecommendedValues ==
    { <<>>,
      << <<"recommended_programs", JNull>> >>,
      << <<"recommended_programs", JStr(DataScience)>> >>,
      << <<"recommended_programs", JList(<<>>)>> >>,
      << <<"recommended_programs", JList(<<ProgramItems.good>>)>> >>,
      << <<"recommended_programs", JList(<<ProgramItems.nameless, ProgramItems.text>>)>> >>,
      << <<"recommended_programs", JList(<<ProgramItems.unscored, ProgramItems.high>>)>> >>,
      << <<"recommended_programs", JList(<<ProgramItems.low, ProgramItems.good>>)>> >>,
      << <<"recommended_programs", JList(<<ProgramItems.nan, ProgramItems.text>>)>> >> }

\* values of one of the four string-list fields
Supplied(field) ==
    CASE field = "career_paths" -> JList(<<JStr(<<" ", "Data Scientist">>)>>)
      [] field = "pros" -> JList(<<JStr(<<"Strong match">>), JNum(3)>>)
      [] field = "cons" -> JList(<<JStr(<<>>), JStr(<<"Extra stats coursework", "\n">>)>>)
      [] field = "next_steps" -> JList(<<JStr(<<"Meet advisor">>)>>)

StringFields == <<"career_paths", "pros", "cons", "next_steps">>

\* the pairs of the fields in S, each with the value valueOf gives it
FieldPairs(S, bad, badValue) ==
    LET chosen == SelectSeq(StringFields, LAMBDA f : f \in S)
    IN  [i \in DOMAIN chosen |->
            <<chosen[i], IF chosen[i] = bad THEN badValue ELSE Supplied(chosen[i])>>]

StringFieldValues ==
    { FieldPairs(S, "", JNull) : S \in SUBSET Range(StringFields) }
    \cup { FieldPairs(Range(StringFields), f, v) :
             f \in Range(StringFields),
             v \in {JStr(<<"x">>), JList(<<JStr(<<" ">>), JStr(<<>>)>>),
                    JList(<<JStr(<<"a">>), JStr(<<"b">>), JStr(<<"  c">>)>>)} }

ModelData ==
    { Dict(r \o FieldPairs({}, "", JNull)) : r \in RecommendedValues }
    \cup { Dict(r \o FieldPairs(Range(StringFields), "", JNull)) : r \in RecommendedValues }
    \cup { Dict(r \o f) : r \in { <<>>, << <<"recommended_programs",
                                              JList(<<ProgramItems.good>>)>> >> },
                          f \in StringFieldValues }

NoResult == [none |-> TRUE]

(***************************************************************************)
(* _load_model_once, called from several threads.  One action per global   *)
(* read, lock operation and library call.  An object is known by its       *)
(* identity: the n-th object a from_pretrained call returned.              *)
(***************************************************************************)
Callers == 1..NumCallers

None == 0

LInitial ==
    /\ _MODEL = None
    /\ _TOKENIZER = None
    /\ _MODEL_LOCK = 0
    /\ lpc = [t \in Callers |-> "idle"]
    /\ seen = [t \in Callers |-> None]
    /\ path = [t \in Callers |-> "none"]
    /\ calls = [t \in Callers |-> 0]
    /\ returned = {}
    /\ loads = [tok |-> 0, model |-> 0, unlocked |-> 0]

\* no caller ever arrives
LIdle == LInitial /\ interop_set = FALSE

\* the process may have started parallel work before the first call
LInit == LInitial /\ interop_set \in BOOLEAN

Goto(t, where) == lpc' = [lpc EXCEPT ![t] = where]

\* the call ends: by a return or by an exception leaving the function
Ends(t, how) ==
    /\ lpc' = [lpc EXCEPT ![t] = "idle"]
    /\ path' = [path EXCEPT ![t] = how]
    /\ calls' = [calls EXCEPT ![t] = @ + 1]

\* an exception inside the with block: the lock is released on the way out
Raises(t) ==
    /\ Ends(t, "raised")
    /\ _MODEL_LOCK' = 0

Call(t) ==
    /\ lpc[t] = "idle" /\ calls[t] < MaxCalls
    /\ Goto(t, "check1_model")
    /\ path' = [path EXCEPT ![t] = "fast"]
    /\ UNCHANGED <<_MODEL, _TOKENIZER, _MODEL_LOCK, interop_set, seen, calls, returned, loads>>

\* variant of Check1Model: the fast path tests the tokenizer only
Check1Model_TokenizerOnly(t) ==
    /\ lpc[t] = "check1_model"
    /\ Goto(t, "check1_tok")
    /\ UNCHANGED <<_MODEL, _TOKENIZER, _MODEL_LOCK, interop_set, seen, path, calls,
                   returned, loads>>

\* line 49, left operand: _MODEL is not None
Check1Model(t) ==
    /\ lpc[t] = "check1_model"
    /\ Goto(t, IF _MODEL # None THEN "check1_tok" ELSE "acquire")
    /\ UNCHANGED <<_MODEL, _TOKENIZER, _MODEL_LOCK, interop_set, seen, path, calls,
                   returned, loads>>

\* line 49, right operand: _TOKENIZER is not None
Check1Tok(t) ==
    /\ lpc[t] = "check1_tok"
    /\ Goto(t, IF _TOKENIZER # None THEN "ret_tok" ELSE "acquire")
    /\ UNCHANGED <<_MODEL, _TOKENIZER, _MODEL_LOCK, interop_set, seen, path, calls,
                   returned, loads>>

\* line 52: with _MODEL_LOCK
Acquire(t) ==
    /\ lpc[t] = "acquire" /\ _MODEL_LOCK = 0
    /\ _MODEL_LOCK' = t
    /\ Goto(t, "check2_model")
    /\ UNCHANGED <<_MODEL, _TOKENIZER, interop_set, seen, path, calls, returned, loads>>

\* line 53, left operand
Check2Model(t) ==
    /\ lpc[t] = "check2_model"
    /\ Goto(t, IF _MODEL # None THEN "check2_tok" ELSE "threads")
    /\ UNCHANGED <<_MODEL, _TOKENIZER, _MODEL_LOCK, interop_set, seen, path, calls,
                   returned, loads>>

\* line 53, right operand; on success line 54 returns with the lock held
Check2Tok(t) ==
    /\ lpc[t] = "check2_tok"
    /\ IF _TOKENIZER # None
       THEN Goto(t, "ret_tok") /\ path' = [path EXCEPT ![t] = "locked"]
       ELSE Goto(t, "threads") /\ UNCHANGED path
    /\ UNCHANGED <<_MODEL, _TOKENIZER, _MODEL_LOCK, interop_set, seen, calls, returned, loads>>

\* lines 56-60: torch.set_num_interop_threads may be called once per process
\* and raises RuntimeError afterwards
SetThreads(t) ==
    /\ lpc[t] = "threads"
    /\ IF interop_set
       THEN Raises(t) /\ UNCHANGED interop_set
       ELSE /\ interop_set' = TRUE
            /\ Goto(t, "load_tok")
            /\ UNCHANGED <<_MODEL_LOCK, path, calls>>
    /\ UNCHANGED <<_MODEL, _TOKENIZER, seen, returned, loads>>

\* line 64: _TOKENIZER = AutoTokenizer.from_pretrained(...), which may raise
LoadTokenizer(t) ==
    /\ lpc[t] = "load_tok"
    /\ loads' = [loads EXCEPT !.tok = @ + 1,
                              !.unlocked = @ + (IF _MODEL_LOCK = t THEN 0 ELSE 1)]
    /\ \/ /\ _TOKENIZER' = loads.tok + 1
          /\ Goto(t, "load_model")
          /\ UNCHANGED <<_MODEL_LOCK, path, calls>>
       \/ Raises(t) /\ UNCHANGED _TOKENIZER
    /\ UNCHANGED <<_MODEL, interop_set, seen, returned>>

\* line 69: _MODEL = AutoModelForCausalLM.from_pretrained(...), which may raise
LoadModel(t) ==
    /\ lpc[t] = "load_model"
    /\ loads' = [loads EXCEPT !.model = @ + 1,
                              !.unlocked = @ + (IF _MODEL_LOCK = t THEN 0 ELSE 1)]
    /\ \/ /\ _MODEL' = loads.model + 1
          /\ Goto(t, "configure")
          /\ UNCHANGED <<_MODEL_LOCK, path, calls>>
       \/ Raises(t) /\ UNCHANGED _MODEL
    /\ UNCHANGED <<_TOKENIZER, interop_set, seen, returned>>

\* lines 75-79: _MODEL.to("cpu"), _MODEL.eval(), the pad token
Configure(t) ==
    /\ lpc[t] = "configure"
    /\ Goto(t, "release")
    /\ UNCHANGED <<_MODEL, _TOKENIZER, _MODEL_LOCK, interop_set, seen, path, calls,
                   returned, loads>>

\* end of the with block
Release(t) ==
    /\ lpc[t] = "release"
    /\ _MODEL_LOCK' = 0
    /\ Goto(t, "ret_tok")
    /\ path' = [path EXCEPT ![t] = "loaded"]
    /\ UNCHANGED <<_MODEL, _TOKENIZER, interop_set, seen, calls, returned, loads>>

\* return _TOKENIZER, _MODEL (lines 50, 54, 81): the first global read
ReturnTok(t) ==
    /\ lpc[t] = "ret_tok"
    /\ seen' = [seen EXCEPT ![t] = _TOKENIZER]
    /\ Goto(t, "ret_model")
    /\ UNCHANGED <<_MODEL, _TOKENIZER, _MODEL_LOCK, interop_set, path, calls, returned, loads>>

\* the second global read and the return; line 54 leaves the with block
ReturnModel(t) ==
    /\ lpc[t] = "ret_model"
    /\ returned' = returned \cup {<<seen[t], _MODEL>>}
    /\ Ends(t, path[t])
    /\ _MODEL_LOCK' = IF _MODEL_LOCK = t THEN 0 ELSE _MODEL_LOCK
    /\ UNCHANGED <<_MODEL, _TOKENIZER, interop_set, seen, loads>>

LNext ==
    \/ \E t \in Callers : Call(t) /\ UNCHANGED <<tvars, avars, pvars, hvars, mvars>>
    \/ \E t \in Callers : Check1Model(t) /\ UNCHANGED <<tvars, avars, pvars, hvars, mvars>>
    \/ \E t \in Callers : Check1Tok(t) /\ UNCHANGED <<tvars, avars, pvars, hvars, mvars>>
    \/ \E t \in Callers : Acquire(t) /\ UNCHANGED <<tvars, avars, pvars, hvars, mvars>>
    \/ \E t \in Callers : Check2Model(t) /\ UNCHANGED <<tvars, avars, pvars, hvars, mvars>>
    \/ \E t \in Callers : Check2Tok(t) /\ UNCHANGED <<tvars, avars, pvars, hvars, mvars>>
    \/ \E t \in Callers : SetThreads(t) /\ UNCHANGED <<tvars, avars, pvars, hvars, mvars>>
    \/ \E t \in Callers : LoadTokenizer(t) /\ UNCHANGED <<tvars, avars, pvars, hvars, mvars>>
    \/ \E t \in Callers : LoadModel(t) /\ UNCHANGED <<tvars, avars, pvars, hvars, mvars>>
    \/ \E t \in Callers : Configure(t) /\ UNCHANGED <<tvars, avars, pvars, hvars, mvars>>
    \/ \E t \in Callers : Release(t) /\ UNCHANGED <<tvars, avars, pvars, hvars, mvars>>
    \/ \E t \in Callers : ReturnTok(t) /\ UNCHANGED <<tvars, avars, pvars, hvars, mvars>>
    \/ \E t \in Callers : ReturnModel(t) /\ UNCHANGED <<tvars, avars, pvars, hvars, mvars>>

(***************************************************************************)
(* ai/app.py: the /api/ask handler.                                        *)
(***************************************************************************)
\* the names the module runModel binds at import
RunModelNames ==
    {"annotations", "json", "os", "re", "sys", "tempfile", "Path", "Lock", "Any", "torch",
     "AutoModelForCausalLM", "AutoTokenizer", "MODEL_ID", "MAX_NEW_TOKENS",
     "_SYSTEM_PROMPT", "_MODEL", "_TOKENIZER", "_MODEL_LOCK", "_load_model_once",
     "_clean_json_like_text", "_debug_raw_output", "extract_json", "_timeline_context",
     "_fallback_programs_from_payload", "_fallback_next_steps", "_fallback_career_paths",
     "_fallback_pros", "_fallback_cons", "_enforce_schema", "generate_json", "_main"}

NoException == [cls |-> "none", msg |-> <<>>]

\* getattr(runModel, name): the AttributeError of a module without that name
MissingAttribute(name) ==
    [cls |-> "AttributeError",
     msg |-> <<"module 'runModel' has no attribute '", name, "'">>]

\* a body Flask cannot read as JSON: request.json raises
NotJson == [t |-> "notjson"]

PromptValues == {JStr(<<>>), JStr(<<"What should I take next?">>), JNum(5)}
ContextValues == {JStr(<<"MATH 221 taken">>), JList(<<>>)}

RequestBodies ==
    {NotJson, JNull, JList(<<>>), Dict(<<>>)}
    \cup {Dict(<< <<"prompt", q>> >>) : q \in PromptValues}
    \cup {Dict(<< <<"context", c>> >>) : c \in ContextValues}
    \cup {Dict(<< <<"prompt", q>>, <<"context", c>> >>) :
              q \in PromptValues, c \in ContextValues}

\* texts and exceptions a text-generating function could answer with
ModelTexts == {<<"Take STAT 340 next.">>}
ModelExceptions == {[cls |-> "RuntimeError", msg |-> <<"out of memory">>]}

\* the f-string of lines 19-28
PromptOf(student_context, user_prompt) ==
    <<"You are an expert academic advisor for the University of Wisconsin-Madison.",
      "Student Context (Courses Taken & Requirements):">> \o PyStr(student_context)
    \o <<"Student Question:">> \o PyStr(user_prompt)
    \o <<"Answer helpfuly and concisely:">>

HIdle ==
    /\ request = NotJson
    /\ hpc = "off"
    /\ full_prompt = <<>>
    /\ model_response = <<>>
    /\ call_raised = NoException
    /\ response = [none |-> TRUE]
    /\ handled = 0

\* app.run: the server waits for requests
HInit ==
    /\ request = NotJson
    /\ hpc = "idle"
    /\ full_prompt = <<>>
    /\ model_response = <<>>
    /\ call_raised = NoException
    /\ response = [none |-> TRUE]
    /\ handled = 0

\* a POST to /api/ask arrives
Receive ==
    /\ hpc \in {"idle", "responded", "propagated"} /\ handled < MaxRequests
    /\ request' \in RequestBodies
    /\ hpc' = "received"
    /\ full_prompt' = <<>>
    /\ model_response' = <<>>
    /\ call_raised' = NoException
    /\ response' = [none |-> TRUE]
    /\ UNCHANGED handled

\* lines 13-28: request.json, the two data.get calls, the prompt.  All of it
\* is outside the try block: an exception here leaves the handler
BuildPrompt ==
    /\ hpc = "received"
    /\ IF request = NotJson
       THEN /\ response' = [exception |-> "UnsupportedMediaType"]
            /\ hpc' = "propagated"
            /\ handled' = handled + 1
            /\ UNCHANGED full_prompt
       ELSE IF ~IsDict(request)
       THEN /\ response' = [exception |-> "AttributeError"]
            /\ hpc' = "propagated"
            /\ handled' = handled + 1
            /\ UNCHANGED full_prompt
       ELSE /\ full_prompt' = PromptOf(Get(request, K("context"), JStr(<<>>)),
                                       Get(request, K("prompt"), JStr(<<>>)))
            /\ hpc' = "prompted"
            /\ UNCHANGED <<response, handled>>
    /\ UNCHANGED <<request, model_response, call_raised>>

\* variant of CallModel: no try block around the call
CallModel_NoTry ==
    /\ hpc = "prompted"
    /\ IF "generate_response" \notin RunModelNames
       THEN /\ call_raised' = MissingAttribute("generate_response")
            /\ response' = [exception |-> "AttributeError"]
            /\ hpc' = "propagated"
            /\ handled' = handled + 1
            /\ UNCHANGED model_response
       ELSE /\ model_response' \in ModelTexts
            /\ hpc' = "called"
            /\ UNCHANGED <<call_raised, response, handled>>
    /\ UNCHANGED <<request, full_prompt>>

\* lines 33-36: runModel.generate_response(full_prompt) inside try; the
\* attribute is looked up on the module first; except Exception as e sets
\* model_response to "Model error: " + str(e)
CallModel ==
    /\ hpc = "prompted"
    /\ IF "generate_response" \notin RunModelNames
       THEN LET e == MissingAttribute("generate_response")
            IN  /\ call_raised' = e
                /\ model_response' = <<"Model error: ">> \o e.msg
       ELSE \/ /\ model_response' \in ModelTexts
               /\ UNCHANGED call_raised
            \/ \E e \in ModelExceptions :
                  /\ call_raised' = e
                  /\ model_response' = <<"Model error: ">> \o e.msg
    /\ hpc' = "called"
    /\ UNCHANGED <<request, full_prompt, response, handled>>

\* line 38: return jsonify({"answer": model_response})
Respond ==
    /\ hpc = "called"
    /\ response' = [answer |-> model_response]
    /\ hpc' = "responded"
    /\ handled' = handled + 1
    /\ UNCHANGED <<request, full_prompt, model_response, call_raised>>

HNext ==
    \/ Receive /\ UNCHANGED <<tvars, avars, lvars, pvars, mvars>>
    \/ BuildPrompt /\ UNCHANGED <<tvars, avars, lvars, pvars, mvars>>
    \/ CallModel /\ UNCHANGED <<tvars, avars, lvars, pvars, mvars>>
    \/ Respond /\ UNCHANGED <<tvars, avars, lvars, pvars, mvars>>

(***************************************************************************)
(* ai/runModel.py: the command line, _main.                                *)
(***************************************************************************)
NoExit == -1

ArgVectors ==
    {<<"ai/runModel.py">>, <<"ai/runModel.py", "payload.json">>,
     <<"ai/runModel.py", "payload.json", "extra">>}

\* what the payload path names: nothing, a directory, a file that is not
\* JSON, a file holding a JSON list, a file holding a JSON object
FileStates == {"missing", "directory", "invalid_json", "list", "object"}

\* what generate_json does for a payload object: it raises, or it returns a
\* result whose strings are all ASCII, or one with other characters (the
\* strings come from the payload and from the model's text)
Generations == {"raises", "ascii_result", "unicode_result"}

MIdle ==
    /\ argv = <<>>
    /\ files = "missing"
    /\ stdout_utf8 = TRUE
    /\ generation = "raises"
    /\ mpc = "off"
    /\ model_loaded = FALSE
    /\ printed = <<>>
    /\ exit_code = NoExit
    /\ escaped = NoException

MInit ==
    /\ argv \in ArgVectors
    /\ files \in FileStates
    /\ stdout_utf8 \in BOOLEAN
    /\ generation \in Generations
    /\ mpc = "start"
    /\ model_loaded = FALSE
    /\ printed = <<>>
    /\ exit_code = NoExit
    /\ escaped = NoException

\* print(..., file=sys.stderr); return code
Fails(message, code) ==
    /\ printed' = Append(printed, [stream |-> "stderr", text |-> message])
    /\ exit_code' = code
    /\ mpc' = "exited"

\* lines 517-519
CheckArgs ==
    /\ mpc = "start"
    /\ IF Len(argv) # 2
       THEN Fails("Usage: python ai/runModel.py <payload.json>", 2)
       ELSE mpc' = "args_ok" /\ UNCHANGED <<printed, exit_code>>
    /\ UNCHANGED <<argv, files, stdout_utf8, generation, model_loaded, escaped>>

\* lines 521-524
CheckFile ==
    /\ mpc = "args_ok"
    /\ IF files = "missing"
       THEN Fails("File not found", 2)
       ELSE mpc' = "file_ok" /\ UNCHANGED <<printed, exit_code>>
    /\ UNCHANGED <<argv, files, stdout_utf8, generation, model_loaded, escaped>>

\* line 527 inside try: read_text raises on a directory, json.loads on a file
\* that is not JSON; lines 529-531 print the error and return 1
ReadPayload ==
    /\ mpc = "file_ok"
    /\ IF files \in {"directory", "invalid_json"}
       THEN Fails("Error", 1)
       ELSE mpc' = "payload_read" /\ UNCHANGED <<printed, exit_code>>
    /\ UNCHANGED <<argv, files, stdout_utf8, generation, model_loaded, escaped>>

\* line 528 inside try: generate_json(payload) loads the model first; a
\* payload that is not a dict raises in _enforce_schema
Generate ==
    /\ mpc = "payload_read"
    /\ model_loaded' = TRUE
    /\ IF files = "list" \/ generation = "raises"
       THEN Fails("Error", 1)
       ELSE mpc' = "generated" /\ UNCHANGED <<printed, exit_code>>
    /\ UNCHANGED <<argv, files, stdout_utf8, generation, escaped>>

\* lines 533-534, outside try: json.dumps(result, ensure_ascii=False) keeps
\* every character, and print raises UnicodeEncodeError for a character that
\* the encoding of stdout lacks
PrintResult ==
    /\ mpc = "generated"
    /\ IF generation = "unicode_result" /\ ~stdout_utf8
       THEN /\ escaped' = [cls |-> "UnicodeEncodeError",
                           msg |-> <<"codec can't encode character">>]
            /\ mpc' = "exited"
            /\ UNCHANGED <<printed, exit_code>>
       ELSE /\ printed' = Append(printed, [stream |-> "stdout", text |-> "result"])
            /\ exit_code' = 0
            /\ mpc' = "exited"
            /\ UNCHANGED escaped
    /\ UNCHANGED <<argv, files, stdout_utf8, generation, model_loaded>>

MNext ==
    \/ CheckArgs /\ UNCHANGED <<tvars, avars, lvars, pvars, hvars>>
    \/ CheckFile /\ UNCHANGED <<tvars, avars, lvars, pvars, hvars>>
    \/ ReadPayload /\ UNCHANGED <<tvars, avars, lvars, pvars, hvars>>
    \/ Generate /\ UNCHANGED <<tvars, avars, lvars, pvars, hvars>>
    \/ PrintResult /\ UNCHANGED <<tvars, avars, lvars, pvars, hvars>>

(***************************************************************************)
(* Direct calls of _enforce_schema (as ai/test_run.py makes them).         *)
(***************************************************************************)
AIdle ==
    /\ payload = JObj(<<>>)
    /\ raw_text = <<>>
    /\ shape = [pre |-> <<>>, wrap |-> "none", body |-> <<>>, suf |-> <<>>]
    /\ parsed = JNull
    /\ model_data = JObj(<<>>)
    /\ result = NoResult
    /\ apc = "idle"

SInit ==
    /\ payload \in Payloads
    /\ model_data \in ModelData
    /\ raw_text = <<>>
    /\ shape = [pre |-> <<>>, wrap |-> "none", body |-> <<>>, suf |-> <<>>]
    /\ parsed = JNull
    /\ result = NoResult
    /\ apc = "call"

EnforceSchema ==
    /\ apc = "call"
    /\ result' = _enforce_schema(model_data, payload)
    /\ apc' = "done"
    /\ UNCHANGED <<payload, raw_text, shape, parsed, model_data>>

SNext == EnforceSchema /\ UNCHANGED <<tvars, lvars, pvars, hvars, mvars>>

TableInit == TInit /\ AIdle /\ LIdle /\ PIdle /\ HIdle /\ MIdle
SpecTable == TableInit /\ [][TNext]_vars

SchemaInit == SInit /\ TInit /\ LIdle /\ PIdle /\ HIdle /\ MIdle
SpecSchema == SchemaInit /\ [][SNext]_vars

ScrapeInit == PInit /\ TInit /\ AIdle /\ LIdle /\ HIdle /\ MIdle
SpecScrape == ScrapeInit /\ [][PNext]_vars

AskInit == HInit /\ TInit /\ AIdle /\ LIdle /\ PIdle /\ MIdle
SpecAsk == AskInit /\ [][HNext]_vars

MainInit == MInit /\ TInit /\ AIdle /\ LIdle /\ PIdle /\ HIdle
SpecMain == MainInit /\ [][MNext]_vars

LoadInit == LInit /\ TInit /\ AIdle /\ PIdle /\ HIdle /\ MIdle
SpecLoad == LoadInit /\ [][LNext]_vars


(***************************************************************************)
(* generate_json: the model output is any text of the form                 *)
(* prose, body (bare or in a code fence), prose.                           *)
(***************************************************************************)
Q == "\""

Bodies ==
    { <<>>,
      <<"I cannot provide output in JSON right now.">>,
      <<"{", Q, "a", Q, ":", "1", "}">>,
      <<"{", Q, "a", Q, ":", Q, ",", "}", Q, "}">>,
      <<"{", Q, "a", Q, ":", "1", ",", "}">>,
      <<"{", Q, "a", Q, ":", "1", ",", ",", "}">>,
      <<"{", Q, "a", Q, ":", Q, "\\", Q, Q, "}">>,
      <<"{", Q, "a", Q, ":", " ", "{", Q, "b", Q, ":", "[", "2", "]", "}", "}">>,
      <<"[", "1", "]">>,
      <<"{", "a", "}">>,
      <<"{", Q, "recommended_programs", Q, ":", "null", "}">>,
      <<"{", Q, "recommended_programs", Q, ":", "[", "{", Q, "name", Q, ":", Q, "Data",
        " ", "Science", Q, ",", Q, "feasibility_score_0_100", Q, ":", "65", ",", Q, "why", Q,
        ":", Q, "Good fit", Q, "}", "]", ",", Q, "next_steps", Q, ":", "[", Q,
        "Meet advisor", Q, "]", "}">> }

ProseTokens == {"Sure", " ", Q, "{", "}", ",", FENCE}

Wraps == {"none", "fence", "json"}

\* the body as the model wrote it: bare, or inside a code fence
Wrapped(wrap, body) ==
    CASE wrap = "none" -> body
      [] wrap = "fence" -> <<FENCE>> \o body \o <<FENCE>>
      [] wrap = "json" -> <<FENCE, "json", "\n">> \o body \o <<"\n", FENCE>>

TextOf(sh) == sh.pre \o Wrapped(sh.wrap, sh.body) \o sh.suf

GenPayloads ==
    { Dict(<<>>),
      Dict(<< <<"candidate_programs", JList(<<CandidateItems.ds, CandidateItems.cs>>)>> >>),
      Dict(<< <<"candidate_programs", JList(<<CandidateItems.blank>>)>> >>) }

GInit ==
    /\ payload \in GenPayloads
    /\ raw_text = <<>>
    /\ shape = [pre |-> <<>>, wrap |-> "none", body |-> <<>>, suf |-> <<>>]
    /\ parsed = JNull
    /\ model_data = JObj(<<>>)
    /\ result = NoResult
    /\ apc = "generate"

\* model.generate and tokenizer.decode: any text
Decode ==
    /\ apc = "generate"
    /\ \E pre \in SeqsUpTo(ProseTokens, MaxProse), w \in Wraps, b \in Bodies :
          \E suf \in SeqsUpTo(ProseTokens, MaxProse - Len(pre)) :
              LET sh == [pre |-> pre, wrap |-> w, body |-> b, suf |-> suf]
              IN  /\ shape' = sh
                  /\ raw_text' = TextOf(sh)
    /\ apc' = "decoded"
    /\ UNCHANGED <<payload, parsed, model_data, result>>

\* parsed = extract_json(raw_text)
Extract ==
    /\ apc = "decoded"
    /\ parsed' = extract_json(raw_text)
    /\ apc' = "parsed"
    /\ UNCHANGED <<payload, raw_text, shape, model_data, result>>

\* a variant that reports the failure instead of falling back
Fallback_ReturnsError ==
    /\ apc = "parsed" /\ parsed = JNull
    /\ model_data' = JObj(<<>>)
    /\ result' = [error |-> "Model did not return valid JSON"]
    /\ apc' = "done"
    /\ UNCHANGED <<payload, raw_text, shape, parsed>>

\* if parsed is None: return _enforce_schema({}, advising_payload)
Fallback ==
    /\ apc = "parsed" /\ parsed = JNull
    /\ model_data' = JObj(<<>>)
    /\ result' = _enforce_schema(JObj(<<>>), payload)
    /\ apc' = "done"
    /\ UNCHANGED <<payload, raw_text, shape, parsed>>

\* return _enforce_schema(parsed, advising_payload)
Normalize ==
    /\ apc = "parsed" /\ parsed # JNull
    /\ model_data' = parsed
    /\ result' = _enforce_schema(parsed, payload)
    /\ apc' = "done"
    /\ UNCHANGED <<payload, raw_text, shape, parsed>>

GNext ==
    \/ Decode /\ UNCHANGED <<tvars, lvars, pvars, hvars, mvars>>
    \/ Extract /\ UNCHANGED <<tvars, lvars, pvars, hvars, mvars>>
    \/ Fallback /\ UNCHANGED <<tvars, lvars, pvars, hvars, mvars>>
    \/ Normalize /\ UNCHANGED <<tvars, lvars, pvars, hvars, mvars>>

GenerateInit == GInit /\ TInit /\ LIdle /\ PIdle /\ HIdle /\ MIdle
SpecGenerate == GenerateInit /\ [][GNext]_vars


(***************************************************************************)
(* Claims about extract_json and generate_json.                            *)
(***************************************************************************)
Returned == apc = "done" /\ result # TypeError

\* the trailing-comma repair, applied until nothing changes
RECURSIVE Repair(_)
Repair(s) == LET c == CommaSub(s, 1) IN IF c = s THEN s ELSE Repair(c)

\* some contiguous piece of the text is a JSON object, as written or once its
\* trailing commas are repaired
ContainsParseable(text) ==
    \E i, j \in DOMAIN text :
        /\ i < j /\ text[i] = "{" /\ text[j] = "}"
        /\ LET piece == json_loads(Repair(SubSeq(text, i, j)))
           IN  piece.ok /\ IsDict(piece.v)

FiveKeys == {"recommended_programs", "career_paths", "pros", "cons", "next_steps"}

\* C2: when the model text holds no parseable JSON object, extract_json returns
\* None and generate_json returns _enforce_schema({}, payload): no error is
\* raised or returned and every field is the fallback computed from the payload.
C2_NoJsonFallsBack ==
    (apc = "done" /\ ~ContainsParseable(raw_text)) =>
        /\ parsed = JNull
        /\ model_data = JObj(<<>>)
        /\ DOMAIN result = FiveKeys
        /\ result.recommended_programs = _fallback_programs_from_payload(payload)
        /\ result.career_paths = _fallback_career_paths(payload, result.recommended_programs)
        /\ result.pros = _fallback_pros(payload, result.recommended_programs)
        /\ result.cons = _fallback_cons(payload, result.recommended_programs)
        /\ result.next_steps = _fallback_next_steps(payload, result.recommended_programs)

C2_Witness ==
    /\ apc = "done" /\ ~ContainsParseable(raw_text)
    /\ shape.body = <<"I cannot provide output in JSON right now.">>
    /\ shape.pre = <<"{">> /\ shape.suf = <<"}">>
    /\ CandidatePrograms(payload) # <<>>
    /\ Len(result.recommended_programs) = 2
    /\ Len(result.next_steps) >= 3

ValidObject(body) == json_loads(body).ok /\ IsDict(json_loads(body).v)

\* C6: for prose, one valid JSON object, prose, extract_json returns that
\* object, also when the prose holds double quotes or braces.
C6_ObjectAmidProse ==
    (/\ apc \in {"parsed", "done"}
     /\ shape.wrap = "none"
     /\ ValidObject(shape.body)
     /\ Range(shape.pre) \cup Range(shape.suf) \subseteq {"Sure", " ", Q, "{", "}"})
    => parsed = json_loads(shape.body).v

\* C7: for a valid JSON object wrapped in a code fence, extract_json returns
\* the object inside the fence.
C7_FencedObject ==
    (/\ apc \in {"parsed", "done"}
     /\ shape.wrap \in {"fence", "json"}
     /\ shape.pre = <<>> /\ shape.suf = <<>>
     /\ ValidObject(shape.body))
    => parsed = json_loads(shape.body).v

(***************************************************************************)
(* Claims about _enforce_schema.                                           *)
(***************************************************************************)
IsSeq(x) == DOMAIN x = 1..Len(x)

\* C1: for every data dict and payload _enforce_schema returns a dict with
\* exactly the five keys, each a list, and every recommended program has exactly
\* the keys name, feasibility_score_0_100 and why.
C1_FiveListFields ==
    apc = "done" =>
        /\ DOMAIN result = FiveKeys
        /\ \A k \in FiveKeys : IsSeq(result[k])
        /\ \A i \in DOMAIN result.recommended_programs :
              DOMAIN result.recommended_programs[i] = {"name", "feasibility_score_0_100", "why"}

\* C3: whenever candidate_programs is non-empty, the returned
\* recommended_programs holds at least one item.
C3_AtLeastOneProgram ==
    (Returned /\ CandidatePrograms(payload) # <<>>) => Len(result.recommended_programs) >= 1

\* C4: the returned next_steps always holds at least 3 items.
C4_AtLeastThreeSteps ==
    Returned => Len(result.next_steps) >= 3

\* the backend score of a candidate that names the program and carries one
CarriesScoreFor(c, name) ==
    /\ IsDict(c)
    /\ Strip(PyStr(Get(c, K("name"), JStr(<<>>)))) = name
    /\ PyFloat(Get(c, K("feasibility_score"), JNull)).ok

\* C5: a returned program named like a candidate that carries a
\* feasibility_score reports that score, clamped to 0..100.
C5_BackendScoreKept ==
    Returned =>
        \A i \in DOMAIN result.recommended_programs :
            \A k \in DOMAIN CandidatePrograms(payload) :
                LET p == result.recommended_programs[i]
                    c == CandidatePrograms(payload)[k]
                IN  CarriesScoreFor(c, p.name) =>
                        p.feasibility_score_0_100
                            = Clamp(PyFloat(Get(c, K("feasibility_score"), JNull)).n)

(***************************************************************************)
(* Grouping claims.  When a table has been left (tpc = "idle"), the rows   *)
(* it appended are output_rows[start_idx+1 ..].                            *)
(***************************************************************************)
Appended == SubSeq(output_rows, start_idx + 1, Len(output_rows))

HasSep == \E i \in DOMAIN rows : _is_sep(rows[i])

\* the rows the running mode accepts as courses
Accepted(i) ==
    /\ ~(HasSep /\ _is_sep(rows[i]))
    /\ row_to_course(rows[i])[1] # ""

\* the accepted rows, in table order
RECURSIVE AcceptedUpTo(_)
AcceptedUpTo(n) ==
    IF n = 0 THEN <<>>
    ELSE IF Accepted(n) THEN Append(AcceptedUpTo(n - 1), n) ELSE AcceptedUpTo(n - 1)
AcceptedIdx == AcceptedUpTo(Len(rows))

Lo(i, j) == IF i < j THEN i ELSE j
Hi(i, j) == IF i < j THEN j ELSE i

NoSepBetween(i, j) == \A k \in Lo(i, j)..Hi(i, j) : ~_is_sep(rows[k])
OnlyCoursesBetween(i, j) == \A k \in Lo(i, j)..Hi(i, j) : Accepted(k)
OnlyCreditlessCoursesBetween(i, j) ==
    \/ i = j
    \/ \A k \in Lo(i, j)..Hi(i, j) : Accepted(k) /\ rows[k].credit_text = ""

SameGroup(mode, i, j) ==
    CASE mode = "header" -> NoSepBetween(i, j)
      [] mode = "category" -> OnlyCoursesBetween(i, j)
      [] mode = "flat" -> OnlyCreditlessCoursesBetween(i, j)

\* the appended rows are the accepted rows in order, and two of them share a
\* group ID exactly when SameGroup holds of their row indices
GroupedBy(mode) ==
    /\ Len(Appended) = Len(AcceptedIdx)
    /\ \A k \in DOMAIN Appended :
          /\ Appended[k].course = rows[AcceptedIdx[k]].text
          /\ Appended[k].major = MAJOR
    /\ \A k, l \in DOMAIN Appended :
          (Appended[k].gid = Appended[l].gid) <=> SameGroup(mode, AcceptedIdx[k], AcceptedIdx[l])

\* C8: a table with a separator row is grouped in header mode whatever
\* inside_category is: two accepted courses share a group ID iff no separator
\* row lies between them; filler rows do not split a group.
C8_HeaderGroups ==
    (tpc = "idle" /\ HasSep) => GroupedBy("header")

C8_Witness ==
    /\ tpc = "idle" /\ HasSep /\ inside_category /\ Len(rows) = 4
    /\ Accepted(1) /\ ~Accepted(2) /\ ~_is_sep(rows[2]) /\ Accepted(3) /\ _is_sep(rows[4])
    /\ Len(Appended) = 2 /\ Appended[1].gid = Appended[2].gid

\* C9: in a flat table every credit-bearing course row is a group of its own,
\* and non-credit course rows share a group iff only non-credit course rows lie
\* between them.
C9_FlatGroups ==
    (tpc = "idle" /\ ~HasSep /\ ~inside_category) => GroupedBy("flat")

C9_Witness ==
    /\ tpc = "idle" /\ ~HasSep /\ ~inside_category /\ Len(rows) = 4
    /\ \A i \in 1..4 : Accepted(i)
    /\ rows[1].credit_text = "" /\ rows[2].credit_text = ""
    /\ rows[3].credit_text # "" /\ rows[4].credit_text = ""
    /\ Len(Appended) = 4
    /\ Appended[1].gid = Appended[2].gid
    /\ Appended[3].gid = Appended[2].gid + 1
    /\ Appended[4].gid = Appended[3].gid + 1

\* C10: inside an accordion category (no separator row) the groups are the
\* maximal runs of consecutive accepted course rows; the credit flag plays no part.
C10_CategoryGroups ==
    (tpc = "idle" /\ ~HasSep /\ inside_category) => GroupedBy("category")

C10_Witness ==
    /\ tpc = "idle" /\ ~HasSep /\ inside_category /\ Len(rows) = 4
    /\ Accepted(1) /\ rows[1].credit_text # ""
    /\ Accepted(2) /\ rows[2].credit_text = ""
    /\ ~Accepted(3) /\ Accepted(4)
    /\ Len(Appended) = 3
    /\ Appended[1].gid = Appended[2].gid
    /\ Appended[3].gid # Appended[2].gid


(***************************************************************************)
(* Flush policy.                                                           *)
(***************************************************************************)
GroupIds == {output_rows[i].gid : i \in DOMAIN output_rows}

\* buckets a flush can be handed, keyword lines included
FlushBuckets == SeqsUpTo({"MATH 221", "Complete two courses from:"}, 2)

Cleaned(b) == SelectSeq(b, LAMBDA c : ~FILTER_KEYWORDS_hit(c))

\* C11: a flush of a bucket that is empty, or empty once keyword lines are
\* dropped, appends nothing and keeps global_group_id; any other flush appends
\* its courses under the current ID and advances global_group_id by one; so
\* at every moment the group IDs in output_rows are exactly
\* 1..global_group_id-1.
C11_FlushPolicy ==
    /\ GroupIds = 1..(global_group_id - 1)
    /\ \A b \in FlushBuckets \cup {bucket} :
          LET f == flush_group(output_rows, global_group_id, b, MAJOR)
          IN  IF Cleaned(b) = <<>>
              THEN f.out = output_rows /\ f.gid = global_group_id
              ELSE /\ f.gid = global_group_id + 1
                   /\ Len(f.out) = Len(output_rows) + Len(Cleaned(b))
                   /\ SubSeq(f.out, 1, Len(output_rows)) = output_rows
                   /\ \A i \in (Len(output_rows) + 1)..Len(f.out) :
                         f.out[i].gid = global_group_id

\* a category table filler, course, filler, course: the first flush is of an
\* empty bucket, the next two are not
C11_Witness ==
    /\ tpc = "idle" /\ inside_category /\ ~HasSep /\ Len(rows) = 4
    /\ row_to_course(rows[1])[1] = "" /\ row_to_course(rows[3])[1] = ""
    /\ Len(Appended) = 2
    /\ global_group_id = 3
    /\ GroupIds = {1, 2}


(***************************************************************************)
(* Claims about _load_model_once.                                          *)
(***************************************************************************)
\* C12: under every interleaving of the callers each from_pretrained call runs
\* at most once, with _MODEL_LOCK held by the caller that runs it, and every
\* call that returns hands back the one tokenizer/model pair of the globals.
C12_LoadedOnce ==
    /\ loads.tok <= 1 /\ loads.model <= 1
    /\ loads.unlocked = 0
    /\ Cardinality(returned) <= 1
    /\ \A p \in returned : p[1] # None /\ p[2] # None /\ p = <<_TOKENIZER, _MODEL>>

\* two callers both found the globals unset; one loaded, the other found them
\* set once it held the lock; both returned
C12_Witness ==
    \E t, u \in Callers :
        /\ path[t] = "loaded" /\ path[u] = "locked"
        /\ lpc[t] = "idle" /\ lpc[u] = "idle"
        /\ calls[t] >= 1 /\ calls[u] >= 1
        /\ returned = {<<1, 1>>}


(***************************************************************************)
(* Claims about the scrape loop.                                           *)
(***************************************************************************)
Skipped == outcome.how \in {"tab_failed", "no_header"}

\* C13: when the requirements tab cannot be opened or no header XPath matches,
\* the iteration ends with output_rows and global_group_id as they were when
\* it began and no CSV written for the program, and the loop is back at its
\* head, ready for the next program.
C13_SkipLeavesNoTrace ==
    Skipped =>
        /\ output_rows = outcome.rows_before
        /\ global_group_id = outcome.gid_before
        /\ outcome.title \notin csv_written
        /\ ppc = "links"
        /\ prog < MaxPrograms => ENABLED (SkipCertificate \/ SkipSeen \/ OpenProgram)

\* a program was processed and wrote its CSV, then the next one was skipped
\* for a missing header
C13_Witness ==
    /\ outcome.how = "no_header" /\ outcome.title = "Statistics, BS"
    /\ csv_written = {"Mathematics, BA"}
    /\ output_rows # <<>>
    /\ prog = 2 /\ ppc = "links"


(***************************************************************************)
(* Claims about ask_llama.                                                 *)
(***************************************************************************)
\* C14: runModel has the function generate_response that the handler calls,
\* and a request that reaches the model call is answered with the model's
\* text, not with a "Model error: " string.
C14_GenerateResponseProvided ==
    hpc = "responded" =>
        /\ "generate_response" \in RunModelNames
        /\ response.answer \in ModelTexts
        /\ Head(response.answer) # "Model error: "

\* C15: an exception raised by the model call never leaves the handler: the
\* answer is then "Model error: " followed by the exception's message; and
\* whatever the handler returns is an object with the single key answer.
C15_CallErrorsAnswered ==
    /\ hpc = "propagated" => call_raised = NoException
    /\ hpc = "responded" =>
          /\ DOMAIN response = {"answer"}
          /\ call_raised # NoException =>
                response.answer = <<"Model error: ">> \o call_raised.msg

\* the call raised AttributeError and the request was answered
C15_Witness ==
    /\ hpc = "responded"
    /\ IsDict(request) /\ K("prompt") \in DOMAIN request.m
    /\ call_raised.cls = "AttributeError"
    /\ response = [answer |-> <<"Model error: ", "module 'runModel' has no attribute '",
                                "generate_response", "'">>]


(***************************************************************************)
(* Claims about _main.                                                     *)
(***************************************************************************)
\* reading, parsing or generating raises
TryRaises == files \in {"directory", "invalid_json", "list"} \/ generation = "raises"

\* C16: _main returns 2 without loading the model when the argument count is
\* not one or the file is missing, 1 when reading, parsing or generating
\* raises, 0 only after the result was printed; no exception leaves _main.
C16_ExitCodes ==
    mpc = "exited" =>
        /\ escaped = NoException
        /\ (Len(argv) # 2 \/ files = "missing") => (exit_code = 2 /\ ~model_loaded)
        /\ (Len(argv) = 2 /\ files # "missing" /\ TryRaises) => exit_code = 1
        /\ exit_code = 0 =>
              (printed # <<>> /\ printed[Len(printed)] = [stream |-> "stdout", text |-> "result"])


(***************************************************************************)
(* Further claims about _enforce_schema.                                   *)
(***************************************************************************)
\* what a raw score must come out as: a number within 0..100 is kept, one
\* below 0 becomes 0, one above 100 becomes 100, NaN lands inside the range,
\* and a value float() rejects counts as the default
ScoreIs(score, raw, default) ==
    LET f == PyFloat(raw)
    IN  /\ score \in 0..100
        /\ ~f.ok => score = default
        /\ (f.ok /\ f.n # NaN /\ f.n \in 0..100) => score = f.n
        /\ (f.ok /\ f.n # NaN /\ f.n < 0) => score = 0
        /\ (f.ok /\ f.n # NaN /\ f.n > 100) => score = 100

\* the items of data["recommended_programs"] that become programs
ValidItems ==
    SelectSeq(Items(Get(model_data, K("recommended_programs"), JList(<<>>))),
              LAMBDA item : IsDict(item)
                            /\ Strip(PyStr(Get(item, K("name"), JStr(<<>>)))) # <<>>)

\* the score the fallback owes candidate c
BackendScoreIs(score, c) ==
    LET feasibility_raw == Get(c, K("feasibility_score"), JNull)
        completion_raw == Get(c, K("completion_pct"), JNum(0))
    IN  IF feasibility_raw # JNull /\ PyFloat(feasibility_raw).ok
        THEN ScoreIs(score, feasibility_raw, 0)
        ELSE ScoreIs(score, completion_raw, 0)

\* C17: every feasibility_score_0_100 of a result is within 0..100.  On the
\* model path the n-th program carries the clamped score of the n-th valid
\* item, 0 when that score is not a number; on the fallback path every
\* program carries the clamped feasibility_score of a candidate of that name,
\* or its clamped completion_pct when the score is missing or not a number.
C17_ScoreInRange ==
    Returned =>
        LET programs == result.recommended_programs
        IN  /\ \A i \in DOMAIN programs : programs[i].feasibility_score_0_100 \in 0..100
            /\ IF ValidItems # <<>>
               THEN /\ Len(programs) = Len(ValidItems)
                    /\ \A i \in DOMAIN programs :
                          ScoreIs(programs[i].feasibility_score_0_100,
                                  Get(ValidItems[i], K("feasibility_score_0_100"), JNum(0)), 0)
               ELSE \A i \in DOMAIN programs :
                      \E k \in DOMAIN CandidatePrograms(payload) :
                          LET c == CandidatePrograms(payload)[k]
                          IN  /\ IsDict(c)
                              /\ Strip(PyStr(Get(c, K("name"), JStr(<<>>)))) = programs[i].name
                              /\ BackendScoreIs(programs[i].feasibility_score_0_100, c)

\* the fallback path with a score that is not a number (completion 150 comes
\* out as 100), a NaN score and a missing score, all in one result
C17_Witness ==
    /\ Returned /\ ValidItems = <<>>
    /\ Len(result.recommended_programs) = 3
    /\ {CandidateItems.math, CandidateItems.nan, CandidateItems.cs}
           \subseteq Range(CandidatePrograms(payload))
    /\ \E i \in 1..3 : /\ result.recommended_programs[i].name = <<"Math">>
                        /\ result.recommended_programs[i].feasibility_score_0_100 = 100
    /\ \E i \in 1..3 : /\ result.recommended_programs[i].name = ComputerSciences
                        /\ result.recommended_programs[i].feasibility_score_0_100 = 90

\* a string that is not empty and has no whitespace at either end
CleanString(str) == str # <<>> /\ Strip(str) = str

\* C18: in every result each of career_paths, pros, cons and next_steps holds
\* at least one item, and every item is a non-empty string without whitespace
\* at its ends, whatever the data dict and the payload.
C18_StringListsClean ==
    Returned =>
        \A f \in Range(StringFields) :
            /\ result[f] # <<>>
            /\ \A i \in DOMAIN result[f] : CleanString(result[f][i])

\* the empty payload; the model gave cons with an empty item and an item
\* ending in a newline, and gave no pros
C18_Witness ==
    /\ Returned
    /\ payload = Dict(<<>>)
    /\ K("cons") \in DOMAIN model_data.m /\ K("pros") \notin DOMAIN model_data.m
    /\ model_data.m[K("cons")] = Supplied("cons")
    /\ result.cons = << <<"Extra stats coursework">> >>
    /\ Len(result.pros) >= 2

\* the value the model data gives a string-list field holds an item that
\* survives the cleaning
SuppliesStrings(value) ==
    IsList(value) /\ \E i \in DOMAIN value.xs : Strip(PyStr(value.xs[i])) # <<>>

\* the fallback of a string-list field
FallbackOf(field, advising_payload, programs) ==
    CASE field = "career_paths" -> _fallback_career_paths(advising_payload, programs)
      [] field = "pros" -> _fallback_pros(advising_payload, programs)
      [] field = "cons" -> _fallback_cons(advising_payload, programs)
      [] field = "next_steps" -> _fallback_next_steps(advising_payload, programs)

\* every field of the result comes from the model data when the model data
\* supplies a valid item for it, and from its fallback otherwise
FieldByField ==
    /\ IF ValidItems # <<>>
       THEN /\ Len(result.recommended_programs) = Len(ValidItems)
            /\ \A i \in DOMAIN ValidItems :
                  /\ result.recommended_programs[i].name
                        = Strip(PyStr(Get(ValidItems[i], K("name"), JStr(<<>>))))
                  /\ result.recommended_programs[i].why
                        = Strip(PyStr(Get(ValidItems[i], K("why"), JStr(<<>>))))
       ELSE result.recommended_programs = _fallback_programs_from_payload(payload)
    /\ \A f \in Range(StringFields) :
          LET value == Get(model_data, K(f), JNull)
          IN  IF SuppliesStrings(value)
              THEN /\ Len(result[f]) = Cardinality({i \in DOMAIN value.xs :
                                                      Strip(PyStr(value.xs[i])) # <<>>})
                   /\ \A i, j \in DOMAIN value.xs :
                         (i <= j /\ Strip(PyStr(value.xs[i])) # <<>>
                                /\ Strip(PyStr(value.xs[j])) # <<>>) =>
                             \E m, n \in DOMAIN result[f] :
                                 /\ m <= n /\ (m = n <=> i = j)
                                 /\ result[f][m] = Strip(PyStr(value.xs[i]))
                                 /\ result[f][n] = Strip(PyStr(value.xs[j]))
              ELSE result[f] = FallbackOf(f, payload, result.recommended_programs)

\* C19: whenever _enforce_schema has been called, each of the five fields is
\* the model's own (cleaned, in the model's order) when the model data supplies
\* a valid item for it, and its fallback when the field is missing, not a list or
\* empty after cleaning; a field the model supplied is the same whichever other
\* fields fell back.
C19_FieldByFieldFallback ==
    apc = "done" => (result # TypeError /\ FieldByField)

=============================================================================
